---- MODULE Spec2Model ----
(***************************************************************************)
(* Change-tracking and media-relay pipeline of the tracker bot.            *)
(*                                                                         *)
(* check_updates / send_media / track_statistics are modelled from         *)
(* src/d5c.py, get_webpage_content and create_archive from src/d5.py.      *)
(* One tracked target (user_id, url) is modelled; every awaited call of    *)
(* the code is one step of the activation that makes it.                   *)
(* ytdl_handler and split_file of the /dl command are modelled from        *)
(* src/D5dl.py (SpecDl), track_statistics calls from any caller and        *)
(* get_statistics from src/d5c.py (SpecStats).                             *)
(***************************************************************************)
EXTENDS Integers, Sequences, FiniteSets, TLC

(* ------------------------------ bounds -------------------------------- *)
\* check_updates invocations explored in one behaviour
MaxCycles == 2
\* distinct resource URLs that pages may link
NumRes == 2
\* longest resource list of a page
MaxRes == 2
\* distinct non-empty page contents
NumContents == 2
\* failures of the collaborators (store, transport, site, downloaders)
\* injected in one behaviour
MaxFaults == 2
\* track_statistics calls with a valid event kind made outside check_updates
MaxCalls == 3
\* /dl commands given in one behaviour
MaxDl == 2

\* safe_send_message calls made in one behaviour
MaxPosts == 2
\* the days that pass in one behaviour of the archive jobs
MaxClock == 3
\* create_archive calls and cleanup_old_archives calls of the archive jobs
MaxAppends == 3
MaxSweeps == 2
\* the configured retention window, in days (the source names it and leaves
\* the value to the configuration)
ARCHIVE_RETENTION_DAYS == 1

\* check_website_updates calls, /track and /untrack commands, and changes
\* of the pages in one behaviour of the JSON-file tracker
MaxScans == 2
MaxCmds == 2
MaxChanges == 1

(* ------------------------- program constants -------------------------- *)
\* `if file_size > MAX_FILE_SIZE` (the unit here is an abstract size step)
MAX_FILE_SIZE == 2
\* `9 <= now.hour < 22`
ACTIVE_FROM == 9
ACTIVE_TO == 22

(* ------------------------------ domains ------------------------------- *)
\* activations of check_updates that may overlap (coroutines of one loop)
Procs == {1, 2}
\* the single activation of a strictly sequential scan
SeqProcs == {1}
\* invocations of ytdl_handler for one chat
Handlers == {1, 2}

Urls == 1..NumRes
Contents == 1..NumContents
\* get_webpage_content returns "" for the content when the fetch failed
EmptyContent == 0
\* local hours the clock is sampled at: both edges of the active window
Hours == {3, ACTIVE_FROM - 1, ACTIVE_FROM, ACTIVE_TO - 1, ACTIVE_TO}
NoHour == 0 - 1
\* sizes a downloaded file may have: at the cap and just above it
Sizes == {MAX_FILE_SIZE, MAX_FILE_SIZE + 1}
NoSize == MAX_FILE_SIZE - MAX_FILE_SIZE

\* hashlib.md5(resource_url.encode()).hexdigest(): a digest, injective on
\* the modelled URLs, never equal to a URL or to a content digest
md5(u) == <<"md5", u>>
\* hashlib.sha256(current_content.encode()).hexdigest()
sha256(c) == <<"sha256", c>>
\* tracked_data.get('content_hash', '') of a target never checked before
NoHash == <<"", 0>>
Hashes == {md5(u) : u \in Urls}

\* one entry of the list get_webpage_content builds
Resource(u) == [url |-> u, hash |-> md5(u)]

\* every sequence over S of length at most n
SeqsUpTo(S, n) == UNION {[1..k -> S] : k \in 0..n}
ResourceLists == {[i \in DOMAIN us |-> Resource(us[i])] : us \in SeqsUpTo(Urls, MaxRes)}

Range(s) == {s[i] : i \in DOMAIN s}

YTDL == "ytdl_download"
DIRECT == "direct_download"
\* the list with its two downloaders exchanged
downloadersSwapped == <<DIRECT, YTDL>>

\* the downloaders of send_media, in list order
downloaders == <<YTDL, DIRECT>>

\* what the user's filter rules accept: everything (no rule configured), or
\* only the first URL
FilterRules == {Urls, {1}}

\* file_path = os.path.join(tmpdir, os.path.basename(resource['url'])), and
\* the path ytdl_download returns to ytdl_handler
FilePath == <<"file_path", 0>>

\* find_one found nothing
NoDoc == [exists |-> FALSE]

\* counters of one stats document; a counter never incremented reads 0
ZeroStats == [checks          |-> [success |-> 0, failure |-> 0],
              downloads       |-> [success |-> 0, failure |-> 0],
              content_changes |-> [success |-> 0, failure |-> 0]]

valid_events == {"downloads", "checks", "content_changes"}
\* the event kinds callers pass: the valid ones and one that is not
EventKinds == valid_events \cup {"uploads"}

\* the check left out, as in the older track_statistics
RejectedNever(event_type) == FALSE

\* `if event_type not in valid_events: raise ValueError(...)`
Rejected(event_type) == event_type \notin valid_events

\* the counter set to 1 ('$set') instead of incremented
UpsertSetting(st, event_type, success) ==
    LET k == IF success THEN "success" ELSE "failure"
    IN  IF event_type \in DOMAIN st
        THEN [st EXCEPT ![event_type][k] = 1]
        ELSE st @@ (event_type :> [[success |-> 0, failure |-> 0] EXCEPT ![k] = 1])

\* update_one(..., {'$inc': {'stats.<event_type>.<success|failure>': 1}},
\* upsert=True): the counter grows by one, and is created when it, or the
\* record of its event kind, is not there yet
Upsert(st, event_type, success) ==
    LET k == IF success THEN "success" ELSE "failure"
    IN  IF event_type \in DOMAIN st
        THEN [st EXCEPT ![event_type][k] = @ + 1]
        ELSE st @@ (event_type :> [[success |-> 0, failure |-> 0] EXCEPT ![k] = 1])

\* track_statistics: the validation, then the $inc; st is returned as it is
\* when the ValueError is raised
track_statistics(st, event_type, success) ==
    IF Rejected(event_type) THEN st ELSE Upsert(st, event_type, success)

VARIABLES
    urls,      \* MongoDB.urls: the tracked target's document, or NoDoc
    stats,     \* MongoDB.stats: the counters of (user_id, url)
    archives,  \* MongoDB.archives: the snapshots written, oldest first
    page,      \* the web page behind url: [content, resources]
    started,   \* check_updates invocations so far (also the clock of `now`)
    frame,     \* frame[p]: the locals of activation p of check_updates
    prev,      \* what the last returned activation did (history)
    faults,    \* failures of the collaborators injected so far
    active_tasks,   \* DownloadHandler.active_tasks: the chats marked active
    progress_data,  \* DownloadHandler.progress_data: status kept per chat
    disk,      \* the files of the /dl command on disk
    invoked,   \* ytdl_handler invocations so far
    hframe,    \* hframe[h]: the locals of invocation h of ytdl_handler
    calls,     \* calls[c]: a track_statistics call made by caller c
    completed, \* $inc updates applied so far, per counter (history)
    others,    \* MongoDB.stats: the documents of the user's other URLs
    report,    \* what get_statistics returned last
    mframe,    \* mframe[s]: the locals of call s of safe_send_message
    posted,    \* safe_send_message calls so far
    clock,     \* datetime.now() of the archive jobs, in days
    sweep,     \* the locals of cleanup_old_archives, and what it did (history)
    appended,  \* create_archive calls of the archive jobs so far
    swept,     \* cleanup_old_archives calls so far
    user_data, \* user_data.json: the tracked_urls of each user in the file
    site,      \* site[url]: the page a URL serves now, or Unreachable
    scan,      \* the locals of check_website_updates, and what it sent (history)
    cmd,       \* cmd[k]: the /track or /untrack command handler k is at
    scans,     \* check_website_updates calls so far
    cmds,      \* /track and /untrack commands so far
    changes    \* changes of the pages so far

\* the state of the /dl command
dlvars == <<active_tasks, progress_data, disk, invoked, hframe>>

\* the state of the statistics calls made outside check_updates
stvars == <<calls, completed, others, report>>

\* the state of the safe_send_message calls made outside check_updates
msgvars == <<mframe, posted>>

\* the state of the archive jobs (with archives)
swvars == <<clock, sweep, appended, swept>>

\* the state of the JSON-file tracker of src/b.py
bvars == <<user_data, site, scan, cmd, scans, cmds, changes>>

auxvars == <<msgvars, swvars, bvars>>

\* the state of check_updates, but for archives
trvars == <<urls, stats, page, started, frame, prev, faults>>

vars == <<urls, stats, archives, page, started, frame, prev, faults,
          active_tasks, progress_data, disk, invoked, hframe,
          calls, completed, others, report,
          mframe, posted, clock, sweep, appended, swept,
          user_data, site, scan, cmd, scans, cmds, changes>>

NoPrev == [exists |-> FALSE]

\* the locals of an activation that is not running
IdleFrame ==
    [pc |-> "idle",
     tracked_data |-> NoDoc,
     hour |-> NoHour,
     fetched |-> FALSE,            \* get_webpage_content was called
     fetch_ok |-> FALSE,           \* ... and got the page
     current_content |-> EmptyContent,
     new_resources |-> <<>>,
     current_hash |-> NoHash,
     changes_detected |-> FALSE,
     text_changes |-> "",
     filtered_resources |-> <<>>,
     idx |-> 1,                    \* position of the for loop
     sent_hashes |-> <<>>,         \* the local list of line 102
     dl |-> 1,                     \* position in downloaders
     tried |-> <<>>,               \* downloader calls of this send_media
     file_size |-> NoSize,
     tmpdir |-> {},                \* what the TemporaryDirectory of send_media holds
     rv |-> FALSE,                 \* what send_media returned
     raised |-> FALSE,             \* the except block was entered (history)
     attempts |-> <<>>,            \* finished send_media calls (history)
     skipped |-> {},               \* hashes the dedup check passed over (history)
     texts |-> <<>>,               \* text messages sent to the user (history)
     archived |-> 0,               \* archive entries written (history)
     stats0 |-> ZeroStats]         \* stats when the activation began (history)

(* ------------------------- the /dl command: data --------------------- *)
\* sizes are counted in KiB
\* `if file_size > 2 * 1024**3`
SPLIT_LIMIT == 2 * 1024 * 1024
\* split_file's default chunk_size, 2000 * 1024 * 1024 bytes
chunk_sizeOverLimit == SPLIT_LIMIT + 100 * 1024
chunk_size == 2000 * 1024
\* f.read(min(remaining, 100 * 1024 * 1024))
READ_BLOCK == 100 * 1024
\* buffer sizes open(part_path, 'wb') may choose: the block size of the
\* device or io.DEFAULT_BUFFER_SIZE
BufferSizes == {4, 8}

Min(a, b) == IF a < b THEN a ELSE b

\* part_file.write(data) of n KiB on a buffered writer of `bufsize`: st.disk
\* is what the file holds on disk, st.buf what waits in the buffer
Write(st, n, bufsize) ==
    IF n <= bufsize - st.buf
    THEN [st EXCEPT !.buf = @ + n]
    ELSE IF n > bufsize
    THEN [st EXCEPT !.disk = @ + st.buf + n, !.buf = 0]
    ELSE [st EXCEPT !.disk = @ + st.buf, !.buf = n]

\* the inner loop `while remaining > 0` of split_file on one part
RECURSIVE FillPart(_, _)
FillPart(st, bufsize) ==
    IF st.remaining <= 0
    THEN st
    ELSE LET n == Min(Min(st.remaining, READ_BLOCK), st.left)
         IN  IF n = 0
             THEN st
             ELSE FillPart([Write(st, n, bufsize) EXCEPT !.left = @ - n,
                                                         !.remaining = @ - n],
                           bufsize)

\* the loop `while True` of split_file from part number part_num on, `left`
\* KiB of the file still unread: the parts appended to part_paths, each with
\* the size it has once its file is closed
RECURSIVE SplitFrom(_, _, _, _, _)
SplitFrom(left, part_num, part_paths, chunk, bufsize) ==
    LET st == FillPart([left |-> left, remaining |-> chunk, disk |-> 0, buf |-> 0],
                       bufsize)
    IN  IF st.disk = 0
        THEN part_paths
        ELSE LET grown == Append(part_paths, [num |-> part_num,
                                               size |-> st.disk + st.buf])
             IN  IF st.remaining > 0
                 THEN grown
                 ELSE SplitFrom(st.left, part_num + 1, grown, chunk, bufsize)

\* split_file(file_path) of a file of `size` KiB
split_file(size, bufsize) == SplitFrom(size, 0, <<>>, chunk_size, bufsize)

\* the path f"{file_path}.part{part_num:03d}"
PartPath(n) == <<"file_path.part", n>>

\* sizes a /dl download may have: small, at the split limit, just above it,
\* whole chunks, and whole chunks plus a short or a long tail
DlSizes == {1, SPLIT_LIMIT, SPLIT_LIMIT + 1, 2 * chunk_size,
            2 * chunk_size + 1, 2 * chunk_size + 6, 2 * chunk_size + READ_BLOCK}
NoFile == 0 - 1

\* the lengths of the text after /dl (0: none) and of the name of the file
\* that ytdl_download returns
UrlLens == {0, 1000}
NameLens == {12}

\* len of f"📥 Downloaded from {url}\n💳 Name: {basename}", cut by [:1024]
WholeCaption(url_len, name_len) == Min(18 + url_len + 9 + name_len, 1024)
\* len of f"📥 Downloaded from {url}\n💳 Name: {basename}\n🔗 Part:
\* {basename}.partNNN", passed as it is
PartCaption(url_len, name_len) ==
    18 + url_len + 9 + name_len + 9 + (name_len + 8)

\* the locals of an invocation of ytdl_handler that is not running
HIdle ==
    [pc |-> "idle",
     url |-> FALSE,                \* the command carries a URL
     url_len |-> 0,                \* len(url)
     name_len |-> 0,               \* len(os.path.basename(file_path))
     captions |-> <<>>,            \* len(caption) of the sends made (history)
     shown |-> "none",             \* the status update_progress last edited in
     file_size |-> NoFile,
     split_parts |-> <<>>,
     i |-> 1,                      \* position of `for part in split_parts`
     progress_task |-> "none",     \* none, running or cancelled
     marked |-> FALSE,             \* the try block was entered (history)
     downloaded |-> {},            \* the files this invocation put on disk (history)
     left |-> {},                  \* those of them on disk when it ended (history)
     log |-> <<>>,                 \* transport sends and file removals, in order (history)
     replies |-> <<>>]             \* text replies and edits, in order (history)

\* no /dl command was ever given
NoDownloads ==
    /\ active_tasks = FALSE
    /\ progress_data = "none"
    /\ disk = {}
    /\ invoked = 0
    /\ hframe = [h \in Handlers |-> HIdle]

(* ------------------------- statistics: data --------------------------- *)
\* callers of track_statistics whose calls may overlap
Callers == {1, 2}

\* a caller that is not in a call
NoCall == [pc |-> "idle", event_type |-> "", success |-> FALSE]

ZeroCompleted == [c \in valid_events \X BOOLEAN |-> 0]

\* get_statistics returned {}
NoReport == [exists |-> FALSE]

\* '$stats.<event>.<k>' of a stats document; 0 stands for a field that is
\* not there ($inc never leaves a counter at 0)
Field(d, event, k) == IF event \in DOMAIN d THEN d[event][k] ELSE 0

\* what $add gives when an operand is a missing field
Null == 0 - 1

\* {'$add': [a, b]}: null when an operand is missing
AddFields(a, b) == IF a = 0 \/ b = 0 THEN Null ELSE a + b

\* {'$sum': ...} over the group: non-numeric values are ignored
RECURSIVE SumOf(_)
SumOf(values) ==
    IF values = <<>>
    THEN 0
    ELSE (IF Head(values) = Null THEN 0 ELSE Head(values)) + SumOf(Tail(values))

\* {'$divide': [n, d]}, kept as the pair of its operands
Ratio(n, d) == [num |-> n, den |-> d]

\* get_statistics over `docs`, the stats documents $match finds for the user
get_statistics(docs) ==
    IF docs = <<>>
    THEN NoReport
    ELSE LET Col(event, k) == [i \in DOMAIN docs |-> Field(docs[i], event, k)]
             total_checks ==
                 SumOf([i \in DOMAIN docs |->
                          AddFields(Field(docs[i], "checks", "success"),
                                    Field(docs[i], "checks", "failure"))])
             success_checks == SumOf(Col("checks", "success"))
         IN  [exists |-> TRUE,
              total_tracked |-> Len(docs),
              success_downloads |-> SumOf(Col("downloads", "success")),
              failed_downloads |-> SumOf(Col("downloads", "failure")),
              uptime_percentage |-> IF total_checks = 0
                                    THEN Ratio(0, 1)
                                    ELSE Ratio(success_checks, total_checks),
              docs |-> docs]

\* stats documents of another URL of the user: some checks recorded
StatsDocs ==
    {[ZeroStats EXCEPT !.checks = [success |-> a, failure |-> b]] :
        a \in 0..1, b \in 0..1} \ {ZeroStats}
OtherDocs == {<<>>} \cup {<<d>> : d \in StatsDocs}

\* no track_statistics call outside check_updates, no get_statistics call,
\* one URL per user
NoCalls ==
    /\ calls = [c \in Callers |-> NoCall]
    /\ completed = ZeroCompleted
    /\ others = <<>>
    /\ report = NoReport

(* ---------------------- safe_send_message: data ----------------------- *)
\* MAX_LENGTH = 4096, the message limit
MAX_LENGTH == 4096

\* a text is a run of characters of the text the caller passed: the
\* characters lo+1 .. hi of it
Text(n) == [lo |-> 0, hi |-> n]
TextLen(t) == t.hi - t.lo
\* text[:n] and text[n:] of Python, n >= 0: the slice stops at the end
SliceTo(t, n) == [lo |-> t.lo, hi |-> Min(t.lo + n, t.hi)]
SliceFromOneOn(t, n) == [lo |-> Min(t.lo + n + 1, t.hi), hi |-> t.hi]
SliceFrom(t, n) == [lo |-> Min(t.lo + n, t.hi), hi |-> t.hi]

\* the lengths of the texts passed in: none, short, around one and two
\* message limits
TextLens ==
    {0, 1, MAX_LENGTH - 1, MAX_LENGTH, MAX_LENGTH + 1,
     2 * MAX_LENGTH, 2 * MAX_LENGTH + 1}

Senders == {1, 2}
MIdle ==
    [pc |-> "idle", original |-> Text(0), text |-> Text(0),
     chunk |-> Text(0), sent |-> <<>>, raised |-> FALSE]

\* no safe_send_message call outside check_updates
NoMessages ==
    /\ mframe = [s \in Senders |-> MIdle]
    /\ posted = 0

(* -------------------------- archive jobs: data ------------------------ *)
\* the filter {'timestamp': {'$lt': cutoff}}
ExpiredOrAt(e, cutoff) == e.timestamp <= cutoff
Expired(e, cutoff) == e.timestamp < cutoff

\* at: datetime.now() of the call; before, appended0: the entries stored and
\* the create_archive calls made when the call began; deleted: the entries
\* this call deleted; last_at: the time of the call before this one
NoSweep == 0 - 1
SweepIdle ==
    [pc |-> "idle", at |-> 0, cutoff |-> 0, before |-> {}, appended0 |-> 0,
     deleted |-> {}, last_at |-> NoSweep]

\* no archive job runs
NoSweeps ==
    /\ clock = 0
    /\ sweep = SweepIdle
    /\ appended = 0
    /\ swept = 0

(* ---------------------- the JSON-file tracker: data ------------------- *)
\* the users (in the order of the keys of the file) and the URLs
BUsers == {1, 2}
BUrls == {1, 2}
\* what the command carries after /track or /untrack: a URL, or text that
\* does not start with http:// or https://
NoUrl == 0
CommandTexts == BUrls \cup {NoUrl}

\* fetch_url_content returns None when the request fails; `if not
\* current_content` treats an empty page the same way
Unreachable == 0
\* the pages a URL may serve: a first text, the same links under another
\* text, and a text that links one more document
PageTexts == 1..3
\* extract_documents(content, url): the document links of the page
extract_documents(content) == IF content = 3 THEN <<"doc">> ELSE <<>>

\* one element of tracked_urls, as /track builds it
UrlInfo(url, content) ==
    [url |-> url, hash |-> sha256(content),
     documents |-> extract_documents(content)]

\* user_data of a user_id that is not a key of the file
NoUserEntry == [exists |-> FALSE, tracked_urls |-> <<>>]

\* the (user_id, index) pairs that the two for loops of
\* check_website_updates go through, in their order
RECURSIVE TargetsFrom(_, _)
TargetsFrom(ud, u) ==
    IF u \notin BUsers
    THEN <<>>
    ELSE [i \in DOMAIN ud[u].tracked_urls |-> <<u, i>>] \o TargetsFrom(ud, u + 1)
Targets(ud) == TargetsFrom(ud, 1)

\* kinds: what was sent, "changed" (send_message) or "documents"
\* (send_document), with the hash the scan had observed
ScanIdle ==
    [pc |-> "idle", user_data |-> [u \in BUsers |-> NoUserEntry], pos |-> 1,
     current_content |-> Unreachable, notices |-> <<>>]

\* the handler of the command being answered (a command runs from its
\* load_user_data to its save_user_data without an awaited call)
CmdProcs == {1}
CmdIdle ==
    [pc |-> "idle", kind |-> "", user_id |-> 0, url |-> NoUrl, reply |-> ""]

\* the JSON-file tracker is not running: no file yet, no command, no scan
NoBot ==
    /\ user_data = [u \in BUsers |-> NoUserEntry]
    /\ site = [x \in BUrls |-> 1]
    /\ scan = ScanIdle
    /\ cmd = [k \in CmdProcs |-> CmdIdle]
    /\ scans = 0
    /\ cmds = 0
    /\ changes = 0

\* the documents a target can have in the store when the bot starts: never
\* checked, night mode on or off, nothing delivered yet or the first URL
\* delivered before (the URLs are interchangeable)
NewDoc(nm, sh) ==
    [exists |-> TRUE, content_hash |-> NoHash, content |-> EmptyContent,
     last_checked |-> 0, night_mode |-> nm, sent_hashes |-> sh, push |-> <<>>]
InitialDocs ==
    {NewDoc(nm, {}) : nm \in BOOLEAN} \cup {NewDoc(FALSE, {md5(1)})}

Pages == [content : Contents, resources : ResourceLists]
\* the page the site serves first (the contents are interchangeable)
FirstPages == {pg \in Pages : pg.content = 1}

Init ==
    /\ urls \in InitialDocs \cup {NoDoc}
    /\ stats = ZeroStats
    /\ archives = <<>>
    /\ page \in FirstPages
    /\ started = 0
    /\ frame = [p \in Procs |-> IdleFrame]
    /\ prev = NoPrev
    /\ faults = 0
    /\ NoDownloads
    /\ NoCalls
    /\ NoMessages
    /\ NoSweeps
    /\ NoBot

\* frame[p] becomes f, nothing else of the activations changes
Goto(p, f) == frame' = [frame EXCEPT ![p] = f]

\* a collaborator fails in this step
Fault == faults < MaxFaults /\ faults' = faults + 1

(* --------------------------- check_updates ---------------------------- *)
\* the dedup check left out, as in the older check_updates
IsNewAlways(r, td) == TRUE

\* `resource['hash'] not in tracked_data.get('sent_hashes', [])`
IsNew(r, td) == r.hash \notin td.sent_hashes

\* `if changes_detected or sent_hashes:` and what follows the for loop up to
\* the next awaited call
AfterLoop(f) ==
    IF f.changes_detected \/ f.sent_hashes # <<>>
    THEN IF f.text_changes # ""
         THEN [f EXCEPT !.pc = "notify"]
         ELSE [f EXCEPT !.pc = "persist"]
    ELSE [f EXCEPT !.pc = "stat_check"]

\* the for loop over filtered_resources, from position f.idx up to the next
\* awaited call: send_media for a resource the dedup check lets through
RECURSIVE RunLoop(_)
RunLoop(f) ==
    IF f.idx > Len(f.filtered_resources)
    THEN AfterLoop(f)
    ELSE LET r == f.filtered_resources[f.idx]
         IN  IF IsNew(r, f.tracked_data)
             THEN [f EXCEPT !.pc = "download", !.dl = 1, !.tried = <<>>,
                            !.file_size = NoSize]
             ELSE RunLoop([f EXCEPT !.idx = @ + 1,
                                    !.skipped = @ \cup {r.hash}])

\* the caller starts check_updates(user_id, url)
Invoke(p) ==
    /\ frame[p].pc = "idle"
    /\ started < MaxCycles
    /\ started' = started + 1
    /\ Goto(p, [IdleFrame EXCEPT !.pc = "find", !.stats0 = stats])
    /\ UNCHANGED <<urls, stats, archives, page, prev, faults>>
    /\ UNCHANGED <<dlvars, stvars, auxvars>>

\* `not (9 <= now.hour < 22)`
OutsideWindow(h) == ~(ACTIVE_FROM <= h /\ h < ACTIVE_TO)

\* find_one, `if not tracked_data: return`, and the night mode check
FindOne(p) ==
    /\ frame[p].pc = "find"
    /\ LET f == [frame[p] EXCEPT !.tracked_data = urls]
       IN  IF ~urls.exists
           THEN Goto(p, [f EXCEPT !.pc = "done"])
           ELSE IF urls.night_mode
           THEN \E h \in Hours :
                    IF OutsideWindow(h)
                    THEN Goto(p, [f EXCEPT !.hour = h, !.pc = "night_stat"])
                    ELSE Goto(p, [f EXCEPT !.pc = "fetch"])
           ELSE Goto(p, [f EXCEPT !.pc = "fetch"])
    /\ UNCHANGED <<urls, stats, archives, page, started, prev, faults>>
    /\ UNCHANGED <<dlvars, stvars, auxvars>>

\* night mode: track_statistics('checks', success=False), then return
NightStat(p) ==
    /\ frame[p].pc = "night_stat"
    /\ stats' = track_statistics(stats, "checks", FALSE)
    /\ Goto(p, [frame[p] EXCEPT !.pc = "done"])
    /\ UNCHANGED <<urls, archives, page, started, prev, faults>>
    /\ UNCHANGED <<dlvars, stvars, auxvars>>

\* get_webpage_content got the page: its text and its resource list
FetchOk(p) ==
    /\ frame[p].pc = "fetch"
    /\ Goto(p, [frame[p] EXCEPT !.pc = "archive", !.fetched = TRUE,
                                !.fetch_ok = TRUE,
                                !.current_content = page.content,
                                !.new_resources = page.resources])
    /\ UNCHANGED <<urls, stats, archives, page, started, prev, faults>>
    /\ UNCHANGED <<dlvars, stvars, auxvars>>

\* get_webpage_content caught an error of the request: `return "", []`
FetchFails(p) ==
    /\ Fault
    /\ frame[p].pc = "fetch"
    /\ Goto(p, [frame[p] EXCEPT !.pc = "archive", !.fetched = TRUE,
                                !.current_content = EmptyContent,
                                !.new_resources = <<>>])
    /\ UNCHANGED <<urls, stats, archives, page, started, prev>>
    /\ UNCHANGED <<dlvars, stvars, auxvars>>

\* the text chosen when current_hash != previous_hash
TextChanges(td) == IF td.content # EmptyContent THEN "updated" ELSE "initial"

\* create_archive, then the comparison of the content hashes
Archive(p) ==
    /\ frame[p].pc = "archive"
    /\ archives' = Append(archives, [content |-> frame[p].current_content,
                                     timestamp |-> started])
    /\ LET f == frame[p]
           previous_hash == f.tracked_data.content_hash
           current_hash == sha256(f.current_content)
           g == [f EXCEPT !.current_hash = current_hash, !.archived = @ + 1]
       IN  IF current_hash # previous_hash
           THEN Goto(p, [g EXCEPT !.changes_detected = TRUE,
                                  !.text_changes = TextChanges(f.tracked_data),
                                  !.pc = "stat_change"])
           ELSE Goto(p, [g EXCEPT !.pc = "filter"])
    /\ UNCHANGED <<urls, stats, page, started, prev, faults>>
    /\ UNCHANGED <<dlvars, stvars, auxvars>>

\* track_statistics('content_changes', user_id, url)
StatChange(p) ==
    /\ frame[p].pc = "stat_change"
    /\ stats' = track_statistics(stats, "content_changes", TRUE)
    /\ Goto(p, [frame[p] EXCEPT !.pc = "filter"])
    /\ UNCHANGED <<urls, archives, page, started, prev, faults>>
    /\ UNCHANGED <<dlvars, stvars, auxvars>>

\* apply_filters on every resource (the user's rules accept the URLs of
\* `accepted`), then the for loop up to its first send_media
Filter(p) ==
    /\ frame[p].pc = "filter"
    /\ \E accepted \in FilterRules :
        LET Keep(r) == r.url \in accepted
            f == [frame[p] EXCEPT
                    !.filtered_resources = SelectSeq(frame[p].new_resources, Keep),
                    !.idx = 1, !.sent_hashes = <<>>]
        IN  Goto(p, RunLoop(f))
    /\ UNCHANGED <<urls, stats, archives, page, started, prev, faults>>
    /\ UNCHANGED <<dlvars, stvars, auxvars>>

(* ----------------------------- send_media ----------------------------- *)
\* the caller marks the resource sent whatever send_media returned
ReturnedMarksAlways(f, outcome, result) ==
    LET r == f.filtered_resources[f.idx]
    IN  [f EXCEPT !.pc = "stat_dl",
                  !.rv = result,
                  !.tmpdir = {},
                  !.sent_hashes = Append(@, r.hash),
                  !.attempts = Append(@, [hash |-> r.hash, outcome |-> outcome])]

\* send_media returns `result` for the resource of the loop, leaving the
\* `with TemporaryDirectory()` block on the way; the caller appends the hash
\* to sent_hashes when it is True and goes on to
\* track_statistics('downloads', ...)
Returned(f, outcome, result) ==
    LET r == f.filtered_resources[f.idx]
    IN  [f EXCEPT !.pc = "stat_dl",
                  !.rv = result,
                  !.tmpdir = {},
                  !.sent_hashes = IF result THEN Append(@, r.hash) ELSE @,
                  !.attempts = Append(@, [hash |-> r.hash, outcome |-> outcome])]

\* the size check left out
TooBigNever(size) == FALSE

\* `if file_size > MAX_FILE_SIZE: return False`
TooBig(size) == size > MAX_FILE_SIZE

\* the downloader at position dl returned true: `break`, then the size check
DownloadOk(p) ==
    /\ frame[p].pc = "download"
    /\ \E size \in Sizes :
        LET f == [frame[p] EXCEPT
                    !.tried = Append(@, [by |-> downloaders[frame[p].dl], ok |-> TRUE]),
                    !.file_size = size,
                    !.tmpdir = {FilePath}]
        IN  IF TooBig(size)
            THEN Goto(p, Returned(f, "too_big", FALSE))
            ELSE Goto(p, [f EXCEPT !.pc = "transport"])
    /\ UNCHANGED <<urls, stats, archives, page, started, prev, faults>>
    /\ UNCHANGED <<dlvars, stvars, auxvars>>

\* the downloader at position dl returned false, with or without a partial
\* file left at file_path: the next one, or the for-else `return False`
DownloadFails(p) ==
    /\ Fault
    /\ frame[p].pc = "download"
    /\ \E partial \in BOOLEAN :
        LET f == [frame[p] EXCEPT
                    !.tried = Append(@, [by |-> downloaders[frame[p].dl], ok |-> FALSE]),
                    !.tmpdir = IF partial THEN {FilePath} ELSE @]
        IN  IF f.dl < Len(downloaders)
            THEN Goto(p, [f EXCEPT !.dl = @ + 1])
            ELSE Goto(p, Returned(f, "no_download", FALSE))
    /\ UNCHANGED <<urls, stats, archives, page, started, prev>>
    /\ UNCHANGED <<dlvars, stvars, auxvars>>

\* `await method(user_id, file_path, ...)` returned: `return True`
TransportOk(p) ==
    /\ frame[p].pc = "transport"
    /\ Goto(p, Returned(frame[p], "sent", TRUE))
    /\ UNCHANGED <<urls, stats, archives, page, started, prev, faults>>
    /\ UNCHANGED <<dlvars, stvars, auxvars>>

\* the except block of send_media returning True
TransportFailsReturnsTrue(p) ==
    /\ Fault
    /\ frame[p].pc = "transport"
    /\ Goto(p, Returned(frame[p], "send_error", TRUE))
    /\ UNCHANGED <<urls, stats, archives, page, started, prev>>
    /\ UNCHANGED <<dlvars, stvars, auxvars>>

\* `await method(...)` raised: `except Exception: return False`
TransportFails(p) ==
    /\ Fault
    /\ frame[p].pc = "transport"
    /\ Goto(p, Returned(frame[p], "send_error", FALSE))
    /\ UNCHANGED <<urls, stats, archives, page, started, prev>>
    /\ UNCHANGED <<dlvars, stvars, auxvars>>

\* track_statistics('downloads', user_id, url, success=<send_media's result>)
StatDl(p) ==
    /\ frame[p].pc = "stat_dl"
    /\ stats' = track_statistics(stats, "downloads", frame[p].rv)
    /\ Goto(p, RunLoop([frame[p] EXCEPT !.idx = @ + 1, !.tried = <<>>,
                                         !.file_size = NoSize]))
    /\ UNCHANGED <<urls, archives, page, started, prev, faults>>
    /\ UNCHANGED <<dlvars, stvars, auxvars>>

(* ------------------------ notify and persist -------------------------- *)
\* safe_send_message(user_id, text_changes)
Notify(p) ==
    /\ frame[p].pc = "notify"
    /\ Goto(p, [frame[p] EXCEPT !.pc = "persist",
                                !.texts = Append(@, frame[p].text_changes)])
    /\ UNCHANGED <<urls, stats, archives, page, started, prev, faults>>
    /\ UNCHANGED <<dlvars, stvars, auxvars>>

\* update_data: 'content_hash', 'last_checked' and the key '$push', all
\* three keys of one dict
UpdateData(f) ==
    [content_hash |-> f.current_hash,
     last_checked |-> started,
     push |-> f.sent_hashes]

\* sent_hashes replaced by the hashes of this cycle instead of left alone
SetFieldsReplacingSent(doc, update_data) ==
    [doc EXCEPT !.content_hash = update_data.content_hash,
                !.last_checked = update_data.last_checked,
                !.sent_hashes = Range(update_data.push)]

\* {'$set': update_data}: every key of update_data is set as a field of the
\* document, '$push' among them; the field sent_hashes is not a key
SetFields(doc, update_data) ==
    [doc EXCEPT !.content_hash = update_data.content_hash,
                !.last_checked = update_data.last_checked,
                !.push = update_data.push]

\* update_one({'_id': tracked_data['_id']}, {'$set': update_data})
Persist(p) ==
    /\ frame[p].pc = "persist"
    /\ urls' = IF urls.exists THEN SetFields(urls, UpdateData(frame[p])) ELSE urls
    /\ Goto(p, [frame[p] EXCEPT !.pc = "stat_check"])
    /\ UNCHANGED <<stats, archives, page, started, prev, faults>>
    /\ UNCHANGED <<dlvars, stvars, auxvars>>

\* track_statistics('checks', user_id, url, success=True)
StatCheck(p) ==
    /\ frame[p].pc = "stat_check"
    /\ stats' = track_statistics(stats, "checks", TRUE)
    /\ Goto(p, [frame[p] EXCEPT !.pc = "done"])
    /\ UNCHANGED <<urls, archives, page, started, prev, faults>>
    /\ UNCHANGED <<dlvars, stvars, auxvars>>

(* --------------------------- error handling --------------------------- *)
\* the awaited calls inside the try block that can raise into its except
TryPcs == {"find", "night_stat", "archive", "stat_change", "filter",
           "stat_dl", "notify", "persist", "stat_check"}

\* an awaited call of the try block raises: `except Exception as e:`
Raise(p) ==
    /\ Fault
    /\ frame[p].pc \in TryPcs
    /\ Goto(p, [frame[p] EXCEPT !.pc = "except_stat", !.raised = TRUE])
    /\ UNCHANGED <<urls, stats, archives, page, started, prev>>
    /\ UNCHANGED <<dlvars, stvars, auxvars>>

\* handler: track_statistics('checks', user_id, url, success=False)
ExceptStat(p) ==
    /\ frame[p].pc = "except_stat"
    /\ stats' = track_statistics(stats, "checks", FALSE)
    /\ Goto(p, [frame[p] EXCEPT !.pc = "except_msg"])
    /\ UNCHANGED <<urls, archives, page, started, prev, faults>>
    /\ UNCHANGED <<dlvars, stvars, auxvars>>

\* handler: app.send_message(user_id, "Error checking ...")
ExceptMsg(p) ==
    /\ frame[p].pc = "except_msg"
    /\ Goto(p, [frame[p] EXCEPT !.pc = "done",
                                !.texts = Append(@, "error")])
    /\ UNCHANGED <<urls, stats, archives, page, started, prev, faults>>
    /\ UNCHANGED <<dlvars, stvars, auxvars>>

\* an awaited call of the handler raises: nothing catches it
RaiseInHandler(p) ==
    /\ Fault
    /\ frame[p].pc \in {"except_stat", "except_msg"}
    /\ Goto(p, [frame[p] EXCEPT !.pc = "escaped"])
    /\ UNCHANGED <<urls, stats, archives, page, started, prev>>
    /\ UNCHANGED <<dlvars, stvars, auxvars>>

\* what is remembered of an activation once it is over
Summary(f) ==
    [exists |-> TRUE,
     new_resources |-> f.new_resources,
     delivered |-> {a.hash : a \in {b \in Range(f.attempts) : b.outcome = "sent"}},
     too_big |-> {a.hash : a \in {b \in Range(f.attempts) : b.outcome = "too_big"}},
     send_error |-> {a.hash : a \in {b \in Range(f.attempts) : b.outcome = "send_error"}},
     all_sent |-> /\ f.pc = "done" /\ ~f.raised
                  /\ f.fetch_ok
                  /\ Len(f.attempts) = Len(f.new_resources)
                  /\ \A a \in Range(f.attempts) : a.outcome = "sent"]

\* check_updates is over: it returned, or its exception reached the caller
Return(p) ==
    /\ frame[p].pc \in {"done", "escaped"}
    /\ prev' = Summary(frame[p])
    /\ Goto(p, IdleFrame)
    /\ UNCHANGED <<urls, stats, archives, page, started, faults>>
    /\ UNCHANGED <<dlvars, stvars, auxvars>>

\* the site publishes another page between two checks
PageChanges ==
    /\ \A p \in Procs : frame[p].pc = "idle"
    /\ 0 < started /\ started < MaxCycles
    /\ page' \in {pg \in Pages \ {page} : \/ pg.content = page.content
                                          \/ pg.resources = page.resources}
    /\ UNCHANGED <<urls, stats, archives, started, frame, prev, faults>>
    /\ UNCHANGED <<dlvars, stvars, auxvars>>

Step(p) ==
    \/ Invoke(p) \/ FindOne(p) \/ NightStat(p)
    \/ FetchOk(p) \/ FetchFails(p) \/ Archive(p) \/ StatChange(p) \/ Filter(p)
    \/ DownloadOk(p) \/ DownloadFails(p) \/ TransportOk(p) \/ TransportFails(p)
    \/ StatDl(p) \/ Notify(p) \/ Persist(p) \/ StatCheck(p)
    \/ Raise(p) \/ ExceptStat(p) \/ ExceptMsg(p) \/ RaiseInHandler(p)
    \/ Return(p)

\* one scan after the other: no two activations overlap
Next == (\E p \in SeqProcs : Step(p)) \/ PageChanges

Spec == Init /\ [][Next]_vars

\* overlapping scheduler ticks: a second activation for the same target may
\* start while the first is suspended at an awaited call
InitConc ==
    /\ urls \in {NewDoc(nm, {}) : nm \in BOOLEAN}
    /\ stats = ZeroStats
    /\ archives = <<>>
    /\ page \in {pg \in FirstPages : Len(pg.resources) <= 1}
    /\ started = 0
    /\ frame = [p \in Procs |-> IdleFrame]
    /\ prev = NoPrev
    /\ faults = 0
    /\ NoDownloads
    /\ NoCalls
    /\ NoMessages
    /\ NoSweeps
    /\ NoBot

NextConc == \E p \in Procs : Step(p)

SpecConc == InitConc /\ [][NextConc]_vars

(* ------------------------ the /dl command: steps ---------------------- *)
HGoto(h, f) == hframe' = [hframe EXCEPT ![h] = f]

\* the command taken without the look at active_tasks
HInvokeUnchecked(h) ==
    /\ hframe[h].pc = "idle"
    /\ invoked < MaxDl
    /\ invoked' = invoked + 1
    /\ \E url_len \in UrlLens :
        LET url == url_len > 0
            f == [HIdle EXCEPT !.url = url, !.url_len = url_len]
        IN  IF ~url
            THEN /\ HGoto(h, [f EXCEPT !.pc = "reply_no_url"])
                 /\ UNCHANGED active_tasks
            ELSE /\ HGoto(h, [f EXCEPT !.pc = "reply_start", !.marked = TRUE])
                 /\ active_tasks' = TRUE
    /\ UNCHANGED <<urls, stats, archives, page, started, frame, prev, faults>>
    /\ UNCHANGED <<stvars, auxvars>>
    /\ UNCHANGED <<progress_data, disk>>

\* a /dl command arrives: ytdl_handler up to its first awaited call that
\* suspends (is_authorized returns True without suspending)
HInvoke(h) ==
    /\ hframe[h].pc = "idle"
    /\ invoked < MaxDl
    /\ invoked' = invoked + 1
    /\ \E url_len \in UrlLens :
        LET url == url_len > 0
            f == [HIdle EXCEPT !.url = url, !.url_len = url_len]
        IN  IF active_tasks
            THEN /\ HGoto(h, [f EXCEPT !.pc = "reply_busy"])
                 /\ UNCHANGED active_tasks
            ELSE IF ~url
            THEN /\ HGoto(h, [f EXCEPT !.pc = "reply_no_url"])
                 /\ UNCHANGED active_tasks
            ELSE /\ HGoto(h, [f EXCEPT !.pc = "reply_start", !.marked = TRUE])
                 /\ active_tasks' = TRUE
    /\ UNCHANGED <<urls, stats, archives, page, started, frame, prev, faults>>
    /\ UNCHANGED <<stvars, auxvars>>
    /\ UNCHANGED <<progress_data, disk>>

\* `return await message.reply(...)` of the two early exits
HReply(h) ==
    /\ hframe[h].pc \in {"reply_busy", "reply_no_url"}
    /\ HGoto(h, [hframe[h] EXCEPT !.pc = "done",
                                  !.replies = Append(@, hframe[h].pc)])
    /\ UNCHANGED <<urls, stats, archives, page, started, frame, prev, faults>>
    /\ UNCHANGED <<stvars, auxvars>>
    /\ UNCHANGED <<active_tasks, progress_data, disk, invoked>>

\* status_msg = await message.reply("Starting download..."), then
\* asyncio.create_task(self.update_progress(...))
HStart(h) ==
    /\ hframe[h].pc = "reply_start"
    /\ HGoto(h, [hframe[h] EXCEPT !.pc = "download",
                                  !.replies = Append(@, "starting"),
                                  !.progress_task = "running"])
    /\ UNCHANGED <<urls, stats, archives, page, started, frame, prev, faults>>
    /\ UNCHANGED <<stvars, auxvars>>
    /\ UNCHANGED <<active_tasks, progress_data, disk, invoked>>

\* the finally block without its first statement
FinallyKeepsActive(h, f, d) ==
    /\ UNCHANGED active_tasks
    /\ progress_data' = "none"
    /\ HGoto(h, [f EXCEPT !.pc = "done",
                          !.progress_task = IF @ = "running" THEN "cancelled" ELSE @,
                          !.left = f.downloaded \cap d])

\* the finally block: active_tasks.pop, progress_task.cancel() when the task
\* was created, progress_data.pop; d is what the disk holds by then
Finally(h, f, d) ==
    /\ active_tasks' = FALSE
    /\ progress_data' = "none"
    /\ HGoto(h, [f EXCEPT !.pc = "done",
                          !.progress_task = IF @ = "running" THEN "cancelled" ELSE @,
                          !.left = f.downloaded \cap d])

\* ytdl_download returned the file name: progress_data set to uploading,
\* the size read, and a file above the limit split
HDownloadOk(h) ==
    /\ hframe[h].pc = "download"
    /\ progress_data' = "uploading"
    /\ \E size \in DlSizes, bufsize \in BufferSizes, name_len \in NameLens :
        LET f == [hframe[h] EXCEPT !.file_size = size,
                                   !.name_len = name_len,
                                   !.downloaded = @ \cup {FilePath}]
        IN  IF size > SPLIT_LIMIT
            THEN LET split_parts == split_file(size, bufsize)
                     g == [f EXCEPT !.split_parts = split_parts, !.i = 1,
                                    !.downloaded = @ \cup
                                        {PartPath(split_parts[k].num) :
                                            k \in DOMAIN split_parts}]
                 IN  /\ disk' = disk \cup {FilePath}
                                      \cup {PartPath(split_parts[k].num) :
                                                k \in DOMAIN split_parts}
                     /\ HGoto(h, IF split_parts = <<>>
                                 THEN [g EXCEPT !.pc = "remove_file"]
                                 ELSE [g EXCEPT !.pc = "send_part"])
            ELSE /\ disk' = disk \cup {FilePath}
                 /\ HGoto(h, [f EXCEPT !.pc = "send_whole"])
    /\ UNCHANGED <<urls, stats, archives, page, started, frame, prev, faults>>
    /\ UNCHANGED <<stvars, auxvars>>
    /\ UNCHANGED <<active_tasks, invoked>>

\* ytdl_download caught an error and returned None
HDownloadFails(h) ==
    /\ Fault
    /\ hframe[h].pc = "download"
    /\ HGoto(h, [hframe[h] EXCEPT !.pc = "edit_failed"])
    /\ UNCHANGED <<urls, stats, archives, page, started, frame, prev>>
    /\ UNCHANGED <<stvars, auxvars>>
    /\ UNCHANGED <<active_tasks, progress_data, disk, invoked>>

\* await status_msg.edit("Download failed"); return
HEditFailed(h) ==
    /\ hframe[h].pc = "edit_failed"
    /\ Finally(h, [hframe[h] EXCEPT !.replies = Append(@, "download_failed")], disk)
    /\ UNCHANGED <<urls, stats, archives, page, started, frame, prev, faults>>
    /\ UNCHANGED <<stvars, auxvars>>
    /\ UNCHANGED <<disk, invoked>>

\* await client.send_document(document=part, ...) returned
HSendPart(h) ==
    /\ hframe[h].pc = "send_part"
    /\ LET f == hframe[h]
           part == PartPath(f.split_parts[f.i].num)
       IN  HGoto(h, [f EXCEPT !.pc = "remove_part",
                             !.captions =
                                 Append(@, PartCaption(f.url_len, f.name_len)),
                             !.log = Append(@, [op |-> "send", path |-> part])])
    /\ UNCHANGED <<urls, stats, archives, page, started, frame, prev, faults>>
    /\ UNCHANGED <<stvars, auxvars>>
    /\ UNCHANGED <<active_tasks, progress_data, disk, invoked>>

\* the loop going on to the next part without removing the one just sent
HRemovePartSkipped(h) ==
    /\ hframe[h].pc = "remove_part"
    /\ LET g == [hframe[h] EXCEPT !.i = @ + 1]
       IN  HGoto(h, IF g.i <= Len(g.split_parts)
                    THEN [g EXCEPT !.pc = "send_part"]
                    ELSE [g EXCEPT !.pc = "remove_file"])
    /\ UNCHANGED <<urls, stats, archives, page, started, frame, prev, faults>>
    /\ UNCHANGED <<stvars, auxvars>>
    /\ UNCHANGED <<active_tasks, progress_data, disk, invoked>>

\* await async_os.remove(part), then the next part or the end of the loop
HRemovePart(h) ==
    /\ hframe[h].pc = "remove_part"
    /\ LET f == hframe[h]
           part == PartPath(f.split_parts[f.i].num)
           g == [f EXCEPT !.i = @ + 1,
                          !.log = Append(@, [op |-> "remove", path |-> part])]
       IN  /\ disk' = disk \ {part}
           /\ HGoto(h, IF g.i <= Len(g.split_parts)
                       THEN [g EXCEPT !.pc = "send_part"]
                       ELSE [g EXCEPT !.pc = "remove_file"])
    /\ UNCHANGED <<urls, stats, archives, page, started, frame, prev, faults>>
    /\ UNCHANGED <<stvars, auxvars>>
    /\ UNCHANGED <<active_tasks, progress_data, invoked>>

\* await method(chat_id, file_path, ...) returned
HSendWhole(h) ==
    /\ hframe[h].pc = "send_whole"
    /\ HGoto(h, [hframe[h] EXCEPT !.pc = "remove_file",
                                  !.captions =
                                      Append(@, WholeCaption(hframe[h].url_len,
                                                             hframe[h].name_len)),
                                  !.log = Append(@, [op |-> "send", path |-> FilePath])])
    /\ UNCHANGED <<urls, stats, archives, page, started, frame, prev, faults>>
    /\ UNCHANGED <<stvars, auxvars>>
    /\ UNCHANGED <<active_tasks, progress_data, disk, invoked>>

\* await async_os.remove(file_path), the last statement of both branches
HRemoveFile(h) ==
    /\ hframe[h].pc = "remove_file"
    /\ disk' = disk \ {FilePath}
    /\ Finally(h, [hframe[h] EXCEPT
                      !.log = Append(@, [op |-> "remove", path |-> FilePath])],
               disk \ {FilePath})
    /\ UNCHANGED <<urls, stats, archives, page, started, frame, prev, faults>>
    /\ UNCHANGED <<stvars, auxvars>>
    /\ UNCHANGED invoked

\* the awaited calls inside the try block of ytdl_handler that can raise
HTryPcs == {"reply_start", "edit_failed", "send_part", "remove_part",
            "send_whole", "remove_file"}

\* one of them raises: `except Exception as e:`
HRaise(h) ==
    /\ Fault
    /\ hframe[h].pc \in HTryPcs
    /\ HGoto(h, [hframe[h] EXCEPT !.pc = "reply_error"])
    /\ UNCHANGED <<urls, stats, archives, page, started, frame, prev>>
    /\ UNCHANGED <<stvars, auxvars>>
    /\ UNCHANGED <<active_tasks, progress_data, disk, invoked>>

\* await message.reply("Error processing the request"), then finally
HReplyError(h) ==
    /\ hframe[h].pc = "reply_error"
    /\ Finally(h, [hframe[h] EXCEPT !.replies = Append(@, "error")], disk)
    /\ UNCHANGED <<urls, stats, archives, page, started, frame, prev, faults>>
    /\ UNCHANGED <<stvars, auxvars>>
    /\ UNCHANGED <<disk, invoked>>

\* that reply raises: the finally block runs and the error leaves the handler
HReplyErrorFails(h) ==
    /\ Fault
    /\ hframe[h].pc = "reply_error"
    /\ Finally(h, hframe[h], disk)
    /\ UNCHANGED <<urls, stats, archives, page, started, frame, prev>>
    /\ UNCHANGED <<stvars, auxvars>>
    /\ UNCHANGED <<disk, invoked>>

\* update_progress, the task created by this invocation, wakes from
\* asyncio.sleep(5): it reads progress_data and, unless the status is idle,
\* edits it into the status message (an edit that fails is logged)
HUpdateProgress(h) ==
    /\ hframe[h].progress_task = "running"
    /\ HGoto(h, IF progress_data = "none"
                THEN hframe[h]
                ELSE [hframe[h] EXCEPT !.shown = progress_data])
    /\ UNCHANGED <<urls, stats, archives, page, started, frame, prev, faults>>
    /\ UNCHANGED <<stvars, auxvars>>
    /\ UNCHANGED <<active_tasks, progress_data, disk, invoked>>

\* the invocation is over; its locals are gone
HReturn(h) ==
    /\ hframe[h].pc = "done"
    /\ HGoto(h, HIdle)
    /\ UNCHANGED <<urls, stats, archives, page, started, frame, prev, faults>>
    /\ UNCHANGED <<stvars, auxvars>>
    /\ UNCHANGED <<active_tasks, progress_data, disk, invoked>>

HStep(h) ==
    \/ HInvoke(h) \/ HReply(h) \/ HStart(h)
    \/ HDownloadOk(h) \/ HDownloadFails(h) \/ HEditFailed(h)
    \/ HSendPart(h) \/ HRemovePart(h) \/ HSendWhole(h) \/ HRemoveFile(h)
    \/ HRaise(h) \/ HReplyError(h) \/ HReplyErrorFails(h)
    \/ HUpdateProgress(h)
    \/ HReturn(h)

\* the /dl command alone: no target is tracked, no check_updates runs
InitDl ==
    /\ urls = NoDoc
    /\ stats = ZeroStats
    /\ archives = <<>>
    /\ page \in {pg \in FirstPages : pg.resources = <<>>}
    /\ started = 0
    /\ frame = [p \in Procs |-> IdleFrame]
    /\ prev = NoPrev
    /\ faults = 0
    /\ NoDownloads
    /\ NoCalls
    /\ NoMessages
    /\ NoSweeps
    /\ NoBot

NextDl == \E h \in Handlers : HStep(h)

SpecDl == InitDl /\ [][NextDl]_vars

(* -------------------------- statistics: steps ------------------------- *)
\* the $inc updates applied so far
Applied ==
    LET n(event) == completed[<<event, TRUE>>] + completed[<<event, FALSE>>]
    IN  n("checks") + n("downloads") + n("content_changes")

\* the calls that passed the validation: those waiting for their update_one
\* and those whose update was applied
Accepted == Cardinality({c \in Callers : calls[c].pc = "update"}) + Applied

\* a caller calls track_statistics(event_type, user_id, url, success): the
\* validation, up to the awaited update_one
StatCall(c) ==
    /\ calls[c].pc = "idle"
    /\ \E event_type \in EventKinds, success \in BOOLEAN :
        IF Rejected(event_type)
        THEN calls' = [calls EXCEPT ![c] = [pc |-> "raised", event_type |-> event_type,
                                            success |-> success]]
        ELSE /\ Accepted < MaxCalls
             /\ calls' = [calls EXCEPT ![c] = [pc |-> "update", event_type |-> event_type,
                                                success |-> success]]
    /\ UNCHANGED <<urls, stats, archives, page, started, frame, prev, faults>>
    /\ UNCHANGED <<auxvars, dlvars, completed, others, report>>

\* the store applies the update_one of the call
StatUpdate(c) ==
    /\ calls[c].pc = "update"
    /\ stats' = Upsert(stats, calls[c].event_type, calls[c].success)
    /\ completed' = IF calls[c].event_type \in valid_events
                    THEN [completed EXCEPT ![<<calls[c].event_type, calls[c].success>>] = @ + 1]
                    ELSE completed
    /\ calls' = [calls EXCEPT ![c].pc = "done"]
    /\ UNCHANGED <<urls, archives, page, started, frame, prev, faults>>
    /\ UNCHANGED <<auxvars, dlvars, others, report>>

\* track_statistics is over: it returned, or its ValueError reached the caller
StatReturn(c) ==
    /\ calls[c].pc \in {"done", "raised"}
    /\ calls' = [calls EXCEPT ![c] = NoCall]
    /\ UNCHANGED <<urls, stats, archives, page, started, frame, prev, faults>>
    /\ UNCHANGED <<auxvars, dlvars, completed, others, report>>

\* get_statistics(user_id): the aggregate over the user's stats documents,
\* the one of the tracked URL among them once a counter of it exists
GetStatistics ==
    /\ report' = get_statistics((IF stats = ZeroStats THEN <<>> ELSE <<stats>>) \o others)
    /\ UNCHANGED <<urls, stats, archives, page, started, frame, prev, faults>>
    /\ UNCHANGED <<auxvars, dlvars, calls, completed, others>>

\* statistics alone: no check_updates runs, no /dl command is given
InitStats ==
    /\ urls = NoDoc
    /\ stats = ZeroStats
    /\ archives = <<>>
    /\ page \in {pg \in FirstPages : pg.resources = <<>>}
    /\ started = 0
    /\ frame = [p \in Procs |-> IdleFrame]
    /\ prev = NoPrev
    /\ faults = 0
    /\ NoDownloads
    /\ calls = [c \in Callers |-> NoCall]
    /\ completed = ZeroCompleted
    /\ others \in OtherDocs
    /\ report = NoReport
    /\ NoMessages
    /\ NoSweeps
    /\ NoBot

NextStats ==
    \/ \E c \in Callers : StatCall(c) \/ StatUpdate(c) \/ StatReturn(c)
    \/ GetStatistics

SpecStats == InitStats /\ [][NextStats]_vars

(* ---------------------- safe_send_message: steps ---------------------- *)
MGoto(s, f) == mframe' = [mframe EXCEPT ![s] = f]

\* `while text:` and `chunk, text = text[:MAX_LENGTH], text[MAX_LENGTH:]`,
\* up to the awaited send_message
Loop(s, f, text) ==
    IF TextLen(text) > 0
    THEN MGoto(s, [f EXCEPT !.pc = "send",
                            !.chunk = SliceTo(text, MAX_LENGTH),
                            !.text = SliceFrom(text, MAX_LENGTH)])
    ELSE MGoto(s, [f EXCEPT !.pc = "done", !.text = text])

\* safe_send_message(user_id, text) is called
SsmCall(s) ==
    /\ mframe[s].pc = "idle"
    /\ posted < MaxPosts
    /\ posted' = posted + 1
    /\ \E n \in TextLens :
        Loop(s, [MIdle EXCEPT !.original = Text(n)], Text(n))
    /\ UNCHANGED <<trvars, archives, dlvars, stvars, swvars, bvars>>

\* await self.app.send_message(user_id, chunk) returns
SsmSend(s) ==
    /\ mframe[s].pc = "send"
    /\ MGoto(s, [mframe[s] EXCEPT !.pc = "sleep",
                                  !.sent = Append(@, mframe[s].chunk)])
    /\ UNCHANGED <<trvars, archives, dlvars, stvars, swvars, bvars, posted>>

\* await self.app.send_message(user_id, chunk) raises: the call ends there
SsmSendFails(s) ==
    /\ mframe[s].pc = "send"
    /\ MGoto(s, [mframe[s] EXCEPT !.pc = "done", !.raised = TRUE])
    /\ UNCHANGED <<trvars, archives, dlvars, stvars, swvars, bvars, posted>>

\* await asyncio.sleep(0.5) returns, and the loop goes round
SsmSleep(s) ==
    /\ mframe[s].pc = "sleep"
    /\ Loop(s, mframe[s], mframe[s].text)
    /\ UNCHANGED <<trvars, archives, dlvars, stvars, swvars, bvars, posted>>

\* the caller has taken the outcome
SsmReturn(s) ==
    /\ mframe[s].pc = "done"
    /\ MGoto(s, MIdle)
    /\ UNCHANGED <<trvars, archives, dlvars, stvars, swvars, bvars, posted>>

\* safe_send_message alone, called by two callers at once
InitMsg ==
    /\ urls = NoDoc
    /\ stats = ZeroStats
    /\ archives = <<>>
    /\ page \in {pg \in FirstPages : pg.resources = <<>>}
    /\ started = 0
    /\ frame = [p \in Procs |-> IdleFrame]
    /\ prev = NoPrev
    /\ faults = 0
    /\ NoDownloads
    /\ NoCalls
    /\ NoMessages
    /\ NoSweeps
    /\ NoBot

NextMsg ==
    \E s \in Senders :
        \/ SsmCall(s) \/ SsmSend(s) \/ SsmSendFails(s) \/ SsmSleep(s)
        \/ SsmReturn(s)

SpecMsg == InitMsg /\ [][NextMsg]_vars

(* -------------------------- archive jobs: steps ----------------------- *)
\* a day passes
Tick ==
    /\ clock < MaxClock
    /\ clock' = clock + 1
    /\ UNCHANGED <<trvars, archives, dlvars, stvars, msgvars, bvars>>
    /\ UNCHANGED <<sweep, appended, swept>>

\* create_archive: insert_one of a snapshot stamped datetime.now(); the store
\* gives each document its own _id
CreateArchive ==
    /\ appended < MaxAppends
    /\ appended' = appended + 1
    /\ \E content \in Contents :
        archives' = Append(archives, [id |-> appended + 1,
                                      content |-> content,
                                      timestamp |-> clock])
    /\ UNCHANGED <<trvars, dlvars, stvars, msgvars, bvars>>
    /\ UNCHANGED <<clock, sweep, swept>>

\* cleanup_old_archives is called: cutoff = now - retention, and
\* delete_many is issued
SweepCall ==
    /\ sweep.pc = "idle"
    /\ swept < MaxSweeps
    /\ swept' = swept + 1
    /\ sweep' = [sweep EXCEPT !.pc = "delete",
                              !.at = clock,
                              !.cutoff = clock - ARCHIVE_RETENTION_DAYS,
                              !.before = Range(archives),
                              !.appended0 = appended,
                              !.deleted = {}]
    /\ UNCHANGED <<trvars, archives, dlvars, stvars, msgvars, bvars>>
    /\ UNCHANGED <<clock, appended>>

\* delete_many removes one document that matches its filter (the store
\* works through the collection while other operations go on)
SweepDelete ==
    /\ sweep.pc = "delete"
    /\ \E i \in DOMAIN archives :
        /\ Expired(archives[i], sweep.cutoff)
        /\ archives' = [k \in 1..(Len(archives) - 1) |->
                           IF k < i THEN archives[k] ELSE archives[k + 1]]
        /\ sweep' = [sweep EXCEPT !.deleted = @ \cup {archives[i]}]
    /\ UNCHANGED <<trvars, dlvars, stvars, msgvars, bvars>>
    /\ UNCHANGED <<clock, appended, swept>>

\* delete_many finds no more document that matches and returns; logger.info
SweepDone ==
    /\ sweep.pc = "delete"
    /\ \A i \in DOMAIN archives : ~Expired(archives[i], sweep.cutoff)
    /\ sweep' = [sweep EXCEPT !.pc = "done"]
    /\ UNCHANGED <<trvars, archives, dlvars, stvars, msgvars, bvars>>
    /\ UNCHANGED <<clock, appended, swept>>

\* the job is over
SweepReturn ==
    /\ sweep.pc = "done"
    /\ sweep' = [SweepIdle EXCEPT !.last_at = sweep.at]
    /\ UNCHANGED <<trvars, archives, dlvars, stvars, msgvars, bvars>>
    /\ UNCHANGED <<clock, appended, swept>>

\* the archive jobs alone: snapshots are appended while the sweep runs
InitSweep ==
    /\ urls = NoDoc
    /\ stats = ZeroStats
    /\ archives = <<>>
    /\ page \in {pg \in FirstPages : pg.resources = <<>>}
    /\ started = 0
    /\ frame = [p \in Procs |-> IdleFrame]
    /\ prev = NoPrev
    /\ faults = 0
    /\ NoDownloads
    /\ NoCalls
    /\ NoMessages
    /\ NoSweeps
    /\ NoBot

NextSweep ==
    \/ Tick \/ CreateArchive
    \/ SweepCall \/ SweepDelete \/ SweepDone \/ SweepReturn

SpecSweep == InitSweep /\ [][NextSweep]_vars

(* ---------------------- the JSON-file tracker: steps ------------------ *)
\* check_website_updates from target number pos on, up to its next awaited
\* call that suspends: a target whose page cannot be fetched or whose hash
\* is the stored one is passed over; after the last one comes
\* save_user_data
RECURSIVE Advance(_, _)
Advance(f, pos) ==
    LET targets == Targets(f.user_data)
    IN  IF pos > Len(targets)
        THEN [f EXCEPT !.pc = "save", !.pos = pos]
        ELSE LET url_info ==
                     f.user_data[targets[pos][1]].tracked_urls[targets[pos][2]]
                 current_content == site[url_info.url]
             IN  IF current_content = Unreachable
                 THEN Advance(f, pos + 1)
                 ELSE IF sha256(current_content) # url_info.hash
                 THEN [f EXCEPT !.pc = "send_message", !.pos = pos,
                                !.current_content = current_content]
                 ELSE Advance(f, pos + 1)

\* the scan goes on as g; save_user_data(user_data) when the loops are over
ScanLand(g) ==
    IF g.pc = "save"
    THEN /\ scan' = [g EXCEPT !.pc = "done"]
         /\ user_data' = g.user_data
    ELSE /\ scan' = g
         /\ UNCHANGED user_data

\* url_info of the target the scan is at
UrlInfoAt(f) ==
    LET t == Targets(f.user_data)[f.pos]
    IN  f.user_data[t[1]].tracked_urls[t[2]]

\* what the scan records of a send: to whom, about which URL, with which
\* observed hash, and whether the transport took it
Notice(f, kind, ok) ==
    [kind |-> kind, user_id |-> Targets(f.user_data)[f.pos][1],
     index |-> Targets(f.user_data)[f.pos][2],
     url |-> UrlInfoAt(f).url, hash |-> sha256(f.current_content), ok |-> ok]

\* the scheduler calls check_website_updates: load_user_data, then the loops
ScanCall ==
    /\ scan.pc = "idle"
    /\ scans < MaxScans
    /\ scans' = scans + 1
    /\ ScanLand(Advance([ScanIdle EXCEPT !.user_data = user_data], 1))
    /\ UNCHANGED <<trvars, archives, dlvars, stvars, msgvars, swvars>>
    /\ UNCHANGED <<site, cmd, cmds, changes>>

\* await client.send_message("Website changed!") returned, or raised and
\* was logged; then new_docs
ScanNotify ==
    /\ scan.pc = "send_message"
    /\ \E ok \in BOOLEAN :
        LET f == [scan EXCEPT !.notices = Append(@, Notice(scan, "changed", ok))]
            stored_documents == UrlInfoAt(f).documents
            IsNewDoc(doc) == doc \notin Range(stored_documents)
            new_docs == SelectSeq(extract_documents(f.current_content), IsNewDoc)
        IN  IF new_docs # <<>>
            THEN ScanLand([f EXCEPT !.pc = "send_document"])
            ELSE ScanLand(Advance(f, f.pos + 1))
    /\ UNCHANGED <<trvars, archives, dlvars, stvars, msgvars, swvars>>
    /\ UNCHANGED <<site, cmd, scans, cmds, changes>>

\* create_document_file and await client.send_document returned, or raised
\* and was logged; then `url_info['documents'] = current_documents` and
\* `url_info['hash'] = current_hash`
ScanSendDocument ==
    /\ scan.pc = "send_document"
    /\ \E ok \in BOOLEAN :
        LET t == Targets(scan.user_data)[scan.pos]
            f == [scan EXCEPT
                    !.notices = Append(@, Notice(scan, "documents", ok)),
                    !.user_data[t[1]].tracked_urls[t[2]] =
                        UrlInfo(@.url, scan.current_content)]
        IN  ScanLand(Advance(f, f.pos + 1))
    /\ UNCHANGED <<trvars, archives, dlvars, stvars, msgvars, swvars>>
    /\ UNCHANGED <<site, cmd, scans, cmds, changes>>

\* the scan is over; its locals are gone
ScanReturn ==
    /\ scan.pc = "done"
    /\ scan' = ScanIdle
    /\ UNCHANGED <<trvars, archives, dlvars, stvars, msgvars, swvars>>
    /\ UNCHANGED <<user_data, site, cmd, scans, cmds, changes>>

CmdGoto(k, kind, user_id, text, reply) ==
    cmd' = [cmd EXCEPT ![k] = [pc |-> "reply", kind |-> kind,
                               user_id |-> user_id, url |-> text,
                               reply |-> reply]]

\* the entry appended even though the URL is tracked already
TrackAddsAnyway(k, user_id, text, allowed) ==
    LET tracked_urls == user_data[user_id].tracked_urls
    IN  IF ~allowed
        THEN CmdGoto(k, "track", user_id, text, "not_authorized")
             /\ UNCHANGED user_data
        ELSE IF text = NoUrl
        THEN CmdGoto(k, "track", user_id, text, "invalid_url")
             /\ UNCHANGED user_data
        ELSE IF site[text] = Unreachable
        THEN CmdGoto(k, "track", user_id, text, "no_access")
             /\ UNCHANGED user_data
        ELSE /\ CmdGoto(k, "track", user_id, text, "tracking_started")
             /\ user_data' =
                   [user_data EXCEPT ![user_id] =
                       [exists |-> TRUE,
                        tracked_urls |->
                            Append(tracked_urls, UrlInfo(text, site[text]))]]

\* track, from the command to its reply: the checks, load_user_data, the
\* fetch, the append and save_user_data
Track(k, user_id, text, allowed) ==
    LET tracked_urls == user_data[user_id].tracked_urls
    IN  IF ~allowed
        THEN CmdGoto(k, "track", user_id, text, "not_authorized")
             /\ UNCHANGED user_data
        ELSE IF text = NoUrl
        THEN CmdGoto(k, "track", user_id, text, "invalid_url")
             /\ UNCHANGED user_data
        ELSE IF \E i \in DOMAIN tracked_urls : tracked_urls[i].url = text
        THEN CmdGoto(k, "track", user_id, text, "already_tracked")
             /\ UNCHANGED user_data
        ELSE IF site[text] = Unreachable
        THEN CmdGoto(k, "track", user_id, text, "no_access")
             /\ UNCHANGED user_data
        ELSE /\ CmdGoto(k, "track", user_id, text, "tracking_started")
             /\ user_data' =
                   [user_data EXCEPT ![user_id] =
                       [exists |-> TRUE,
                        tracked_urls |->
                            Append(tracked_urls, UrlInfo(text, site[text]))]]

\* untrack, from the command to its reply: the checks, load_user_data, the
\* list without the URL, and save_user_data when the list got shorter
Untrack(k, user_id, text, allowed) ==
    LET tracked_urls == user_data[user_id].tracked_urls
        Other(u) == u.url # text
        kept == SelectSeq(tracked_urls, Other)
    IN  IF ~allowed
        THEN CmdGoto(k, "untrack", user_id, text, "not_authorized")
             /\ UNCHANGED user_data
        ELSE IF ~user_data[user_id].exists
        THEN CmdGoto(k, "untrack", user_id, text, "no_tracked_urls")
             /\ UNCHANGED user_data
        ELSE IF Len(kept) < Len(tracked_urls)
        THEN /\ CmdGoto(k, "untrack", user_id, text, "tracking_stopped")
             /\ user_data' = [user_data EXCEPT ![user_id].tracked_urls = kept]
        ELSE CmdGoto(k, "untrack", user_id, text, "not_found")
             /\ UNCHANGED user_data

\* a /track command arrives
TrackCmd(k) ==
    /\ cmd[k].pc = "idle"
    /\ cmds < MaxCmds
    /\ cmds' = cmds + 1
    /\ \E user_id \in BUsers, text \in CommandTexts, allowed \in BOOLEAN :
        Track(k, user_id, text, allowed)
    /\ UNCHANGED <<trvars, archives, dlvars, stvars, msgvars, swvars>>
    /\ UNCHANGED <<site, scan, scans, changes>>

\* an /untrack command arrives
UntrackCmd(k) ==
    /\ cmd[k].pc = "idle"
    /\ cmds < MaxCmds
    /\ cmds' = cmds + 1
    /\ \E user_id \in BUsers, text \in CommandTexts, allowed \in BOOLEAN :
        Untrack(k, user_id, text, allowed)
    /\ UNCHANGED <<trvars, archives, dlvars, stvars, msgvars, swvars>>
    /\ UNCHANGED <<site, scan, scans, changes>>

\* await message.reply_text(...) is over, and with it the handler
CmdReply(k) ==
    /\ cmd[k].pc = "reply"
    /\ cmd' = [cmd EXCEPT ![k] = CmdIdle]
    /\ UNCHANGED <<trvars, archives, dlvars, stvars, msgvars, swvars>>
    /\ UNCHANGED <<user_data, site, scan, scans, cmds, changes>>

\* a site serves another page, or stops or starts answering
SiteChanges ==
    /\ changes < MaxChanges
    /\ changes' = changes + 1
    /\ \E x \in BUrls, c \in PageTexts \cup {Unreachable} :
        /\ c # site[x]
        /\ site' = [site EXCEPT ![x] = c]
    /\ UNCHANGED <<trvars, archives, dlvars, stvars, msgvars, swvars>>
    /\ UNCHANGED <<user_data, scan, cmd, scans, cmds>>

\* the file when the bot starts: missing, or left by an earlier run in which
\* the first user tracked the second URL
InitialFiles ==
    {[u \in BUsers |-> NoUserEntry],
     [u \in BUsers |->
         IF u = 1
         THEN [exists |-> TRUE, tracked_urls |-> <<UrlInfo(2, 1)>>]
         ELSE NoUserEntry]}

\* the JSON-file tracker alone
InitBot ==
    /\ urls = NoDoc
    /\ stats = ZeroStats
    /\ archives = <<>>
    /\ page \in {pg \in FirstPages : pg.resources = <<>>}
    /\ started = 0
    /\ frame = [p \in Procs |-> IdleFrame]
    /\ prev = NoPrev
    /\ faults = 0
    /\ NoDownloads
    /\ NoCalls
    /\ NoMessages
    /\ NoSweeps
    /\ user_data \in InitialFiles
    /\ site = [x \in BUrls |-> 1]
    /\ scan = ScanIdle
    /\ cmd = [k \in CmdProcs |-> CmdIdle]
    /\ scans = 0
    /\ cmds = 0
    /\ changes = 0

NextBot ==
    \/ ScanCall \/ ScanNotify \/ ScanSendDocument \/ ScanReturn
    \/ \E k \in CmdProcs : TrackCmd(k) \/ UntrackCmd(k) \/ CmdReply(k)
    \/ SiteChanges

SpecBot == InitBot /\ [][NextBot]_vars

(* ======================= properties of the claims ===================== *)
\* the hashes of the send_media calls of an activation that returned True,
\* in call order
SentSeq(attempts) ==
    LET IsSent(a) == a.outcome = "sent"
        s == SelectSeq(attempts, IsSent)
    IN  [i \in DOMAIN s |-> s[i].hash]

\* the activation is over (returned or raised) and not yet forgotten
Over(f) == f.pc \in {"done", "escaped"}

\* the activation is between its call and its end
InProgress(f) == f.pc \notin {"idle", "done", "escaped"}

\* the resource the for loop is at while send_media runs or has just returned
InSendMedia(f) == f.pc \in {"download", "transport", "stat_dl"}

\* the fingerprints the store holds as sent for the target: the field
\* sent_hashes, and what the update wrote under the key '$push'
StoredSent == IF urls.exists THEN urls.sent_hashes \cup Range(urls.push) ELSE {}

\* the same, as the activation read it with find_one
ReadSent(f) ==
    IF f.tracked_data.exists
    THEN f.tracked_data.sent_hashes \cup Range(f.tracked_data.push)
    ELSE {}

\* C1: two check cycles in a row over the same resource list, every download
\* and send succeeding, deliver each resource exactly once: what the first
\* cycle delivered is not delivered again by the second.
C1_NoRedelivery ==
    \A p \in Procs :
        LET f == frame[p]
        IN  ( /\ f.pc = "done" /\ ~f.raised
              /\ prev.exists /\ prev.all_sent
              /\ f.fetch_ok /\ f.new_resources = prev.new_resources
              /\ \A a \in Range(f.attempts) : a.outcome = "sent" )
            => \A a \in Range(f.attempts) : a.hash \notin prev.delivered

\* C2: a fingerprint is marked sent only after the transport call of its
\* resource returned without error in the same cycle: the list sent_hashes of
\* a cycle holds exactly the hashes of its send_media calls that returned
\* True, no hash is on it while its send is still under way, and whatever a
\* step adds to the stored record is on the list of the cycle that wrote it.
C2_MarkedAfterSend ==
    /\ [](\A p \in Procs : frame[p].sent_hashes = SentSeq(frame[p].attempts))
    /\ [][\A h \in StoredSent' \ StoredSent :
            \E p \in Procs : h \in Range(SentSeq(frame[p].attempts))]_vars

\* C2 witness: a cycle delivered a resource, marked it and persisted
C2_Witness ==
    /\ urls.exists /\ urls.push # <<>>
    /\ \E p \in Procs : frame[p].pc = "stat_check" /\ frame[p].sent_hashes # <<>>

\* C3: the stored sent_hashes of the target never loses a fingerprint, in
\* successful, failed and night-skipped cycles alike.
C3_SentHashesOnlyGrows ==
    [][urls.exists => urls'.exists /\ urls.sent_hashes \subseteq urls'.sent_hashes]_vars

\* C3 witness: a target with a delivered fingerprint went through a cycle
\* that delivered another resource and persisted
C3_Witness ==
    /\ urls.exists /\ urls.sent_hashes # {} /\ urls.push # <<>>
    /\ prev.exists

\* C4: no downloader is invoked for a resource whose fingerprint was in
\* sent_hashes when the cycle read the target.
C4_DedupBeforeDownload ==
    \A p \in Procs :
        LET f == frame[p]
        IN  f.tracked_data.exists =>
              /\ \A a \in Range(f.attempts) : a.hash \notin f.tracked_data.sent_hashes
              /\ InSendMedia(f) =>
                    f.filtered_resources[f.idx].hash \notin f.tracked_data.sent_hashes

\* C4 witness: a cycle passed over a delivered resource and downloaded
\* another one
C4_Witness ==
    \E p \in Procs :
        /\ frame[p].skipped # {}
        /\ frame[p].attempts # <<>>
        /\ frame[p].pc = "done"

\* C5: a cycle whose fetch failed (and in which nothing else fails) leaves
\* the target as it read it, records no content change, and records exactly
\* one checks.failure.
C5_FetchFailureLeavesTarget ==
    \A p \in Procs :
        LET f == frame[p]
        IN  (f.pc = "done" /\ ~f.raised /\ f.fetched /\ ~f.fetch_ok) =>
              /\ urls = f.tracked_data
              /\ stats.content_changes = f.stats0.content_changes
              /\ stats.checks.failure = f.stats0.checks.failure + 1
              /\ stats.checks.success = f.stats0.checks.success

\* C6: a cycle skipped by night mode (the hour read is outside 9..21)
\* fetches nothing, archives nothing and does not count as a failed check.
C6_NightSkipIsNoFailure ==
    \A p \in Procs :
        LET f == frame[p]
        IN  (f.pc = "done" /\ ~f.raised /\ f.hour # NoHour) =>
              /\ ~f.fetched
              /\ f.archived = 0
              /\ stats.checks.failure = f.stats0.checks.failure

\* C7: no failure of a step of a cycle leaves check_updates.
C7_NothingEscapes ==
    \A p \in Procs : frame[p].pc # "escaped"

\* C8: no two check cycles of the target are in progress at the same time.
C8_OneCycleAtATime ==
    \A p, q \in Procs :
        (InProgress(frame[p]) /\ InProgress(frame[q])) => p = q

\* C9: an oversized download is never handed to the transport and never
\* marked sent, and the next cycle that lists the resource downloads it again
\* instead of passing over it.
C9_OversizedNotSentAndRetried ==
    \A p \in Procs :
        LET f == frame[p]
        IN  /\ f.pc = "transport" => f.file_size <= MAX_FILE_SIZE
            /\ (f.pc = "stat_dl" /\ f.file_size > MAX_FILE_SIZE) =>
                  /\ ~f.rv
                  /\ f.attempts[Len(f.attempts)].outcome = "too_big"
                  /\ f.sent_hashes = SentSeq(f.attempts)
            /\ prev.exists => f.skipped \cap (prev.too_big \ prev.delivered) = {}

\* C9 witness: the cycle after an oversized download tried the resource again
C9_Witness ==
    \E p \in Procs :
        /\ prev.exists
        /\ \E a \in Range(frame[p].attempts) : a.hash \in prev.too_big \ prev.delivered

\* C10: the downloaders are called in the order ytdl_download,
\* direct_download; none is called after one succeeded; send_media fails for
\* want of a download, sending nothing, exactly when both were called and
\* both failed.
C10_FallbackOrder ==
    \A p \in Procs :
        LET f == frame[p]
            n == Len(f.tried)
            AllFailed == n = 2 /\ \A i \in 1..n : ~f.tried[i].ok
        IN  /\ n <= 2
            /\ n >= 1 => f.tried[1].by = YTDL
            /\ n >= 2 => f.tried[2].by = DIRECT
            /\ \A i \in 1..n : f.tried[i].ok => i = n
            /\ f.pc = "transport" => n >= 1 /\ f.tried[n].ok
            /\ f.pc = "stat_dl" =>
                  /\ (f.attempts[Len(f.attempts)].outcome = "no_download") <=> AllFailed
                  /\ AllFailed => ~f.rv /\ f.file_size = NoSize

\* C10 witness: the first downloader failed and the second one succeeded
C10_Witness ==
    \E p \in Procs :
        /\ frame[p].pc = "transport"
        /\ Len(frame[p].tried) = 2
        /\ ~frame[p].tried[1].ok /\ frame[p].tried[2].ok

\* send_media of check_updates leaves nothing behind: outside the
\* `with TemporaryDirectory()` block the directory and its file are gone
SendMediaLeavesNoFile ==
    \A p \in Procs :
        frame[p].pc \notin {"download", "transport"} => frame[p].tmpdir = {}

\* C11: the file that holds a downloaded resource is removed on every exit
\* path of the download+send operation: nothing is left once send_media has
\* returned, and the file ytdl_handler downloaded is gone once it is over.
C11_TempFileRemoved ==
    /\ SendMediaLeavesNoFile
    /\ \A h \in Handlers :
          hframe[h].pc = "done" => FilePath \notin hframe[h].left

\* C12: "Initial Content Saved" is reported on the first check of a target
\* only; a check that finds the content fingerprint changed after a
\* fingerprint was stored reports the change with a diff ("Content Updated").
C12_InitialSnapshotOnce ==
    \A p \in Procs :
        LET f == frame[p]
            first == f.tracked_data.content_hash = NoHash
        IN  (f.fetch_ok /\ f.changes_detected /\ f.tracked_data.exists) =>
              /\ first => f.text_changes = "initial"
              /\ (~first /\ prev.exists /\ prev.all_sent) => f.text_changes = "updated"

\* C13: a target never checked before, whose page links one resource, is
\* checked twice over the unchanged page with nothing failing: the first
\* check delivers the resource and marks it sent, the second sends no text
\* and delivers nothing again, and the counters then read checks.success 2,
\* downloads.success 1, every failure counter 0.
C13_EndToEnd ==
    \A p \in Procs :
        LET f == frame[p]
        IN  ( /\ f.pc = "done" /\ faults = 0 /\ started = 2
              /\ prev.exists /\ prev.all_sent
              /\ Len(prev.new_resources) = 1 /\ prev.delivered # {}
              /\ f.fetch_ok /\ f.new_resources = prev.new_resources
              /\ f.filtered_resources = f.new_resources
              /\ \A a \in Range(f.attempts) : a.outcome = "sent"
              /\ ~f.changes_detected ) =>
            /\ prev.delivered \subseteq urls.sent_hashes
            /\ f.texts = <<>>
            /\ f.attempts = <<>>
            /\ stats.checks = [success |-> 2, failure |-> 0]
            /\ stats.downloads = [success |-> 1, failure |-> 0]
            /\ stats.content_changes.failure = 0

\* C14: a check cycle that fails sends no message to the user: no error text
\* is ever sent, and a cycle whose fetch failed sends no text at all.
C14_FailuresAreSilent ==
    \A p \in Procs :
        LET f == frame[p]
        IN  /\ "error" \notin Range(f.texts)
            /\ (f.fetched /\ ~f.fetch_ok) => f.texts = <<>>

\* C15: a resource whose transport send failed is not marked sent by that
\* send, neither on the list of the cycle nor in the stored record, and the
\* next cycle that lists it attempts it again instead of passing over it.
C15_SendErrorNotMarkedAndRetried ==
    \A p \in Procs :
        LET f == frame[p]
            failed == {a.hash : a \in {b \in Range(f.attempts) : b.outcome = "send_error"}}
        IN  /\ (f.pc = "stat_dl" /\ f.attempts[Len(f.attempts)].outcome = "send_error") =>
                  /\ ~f.rv
                  /\ f.sent_hashes = SentSeq(f.attempts)
            /\ \A h \in failed :
                  (h \notin Range(SentSeq(f.attempts)) /\ h \notin ReadSent(f))
                      => h \notin StoredSent
            /\ prev.exists => f.skipped \cap (prev.send_error \ prev.delivered) = {}

\* C15 witness: the cycle after a failed send attempted the resource again
C15_Witness ==
    \E p \in Procs :
        /\ prev.exists
        /\ \E a \in Range(frame[p].attempts) : a.hash \in prev.send_error \ prev.delivered

\* C16: within one check cycle no resource is delivered twice, and a cycle
\* that has put every listed resource through send_media has downloaded each
\* fingerprint once, from a list that holds each URL once.
C16_EachUrlOncePerCycle ==
    \A p \in Procs :
        LET f == frame[p]
            delivered == SentSeq(f.attempts)
        IN  /\ \A i, j \in DOMAIN delivered : delivered[i] = delivered[j] => i = j
            /\ (f.pc = "done" /\ ~f.raised /\ Len(f.attempts) = Len(f.new_resources)) =>
                  /\ \A i, j \in DOMAIN f.attempts :
                        f.attempts[i].hash = f.attempts[j].hash => i = j
                  /\ \A i, j \in DOMAIN f.new_resources :
                        f.new_resources[i].url = f.new_resources[j].url => i = j

\* the counters of a stats document added up, a missing counter counting 0
Counted(d, k) ==
    SumOf([i \in 1..3 |-> Field(d, <<"checks", "downloads", "content_changes">>[i], k)])

\* C17: a track_statistics call is rejected with the validation error exactly
\* when its event kind is none of checks, downloads, content_changes; such a
\* call never reaches the store, so no counter or record of another kind
\* exists and the counters add up to the updates of the accepted calls.
C17_UnknownEventRejected ==
    /\ \A c \in Callers :
          calls[c].pc # "idle" =>
              (calls[c].pc = "raised"
                  <=> calls[c].event_type \notin {"checks", "downloads", "content_changes"})
    /\ DOMAIN stats = {"checks", "downloads", "content_changes"}
    /\ Counted(stats, "success") + Counted(stats, "failure") = Applied

\* C17 witness: a call with an unknown kind was rejected after other calls
\* had been counted
C17_Witness ==
    \E c \in Callers :
        /\ calls[c].pc = "raised" /\ calls[c].event_type = "uploads"
        /\ Applied > 0

\* C18: the uptime ratio get_statistics returns equals the sum of
\* checks.success over the sum of checks.success + checks.failure of the
\* user's documents; it is 0 when no check is recorded, 1 when every recorded
\* check succeeded, and lies between 0 and 1.
C18_UptimeRatio ==
    report.exists =>
        LET docs == report.docs
            S == SumOf([i \in DOMAIN docs |-> Field(docs[i], "checks", "success")])
            F == SumOf([i \in DOMAIN docs |-> Field(docs[i], "checks", "failure")])
            u == report.uptime_percentage
        IN  /\ u.den > 0
            /\ S + F = 0 => u.num = 0
            /\ S + F > 0 => u.num * (S + F) = S * u.den
            /\ (S + F > 0 /\ F = 0) => u.num = u.den
            /\ 0 <= u.num /\ u.num <= u.den

\* C19: no increment is lost when track_statistics calls overlap: every
\* counter reads exactly the number of updates applied to it, whatever the
\* interleaving, and no other counter moved.
C19_NoLostIncrement ==
    \A event \in valid_events, success \in BOOLEAN :
        Field(stats, event, IF success THEN "success" ELSE "failure")
            = completed[<<event, success>>]

\* C19 witness: two overlapping calls for the same counter were both applied
C19_Witness ==
    /\ \A c \in Callers : calls[c].pc = "done"
    /\ calls[1].event_type = calls[2].event_type
    /\ calls[1].success = calls[2].success
    /\ completed[<<calls[1].event_type, calls[1].success>>] >= 2

\* what ytdl_handler does with the files of a split download when nothing
\* fails: every part sent and then removed, in list order, then the original
\* file removed
RECURSIVE SplitSchedule(_)
SplitSchedule(parts) ==
    IF parts = <<>>
    THEN <<[op |-> "remove", path |-> FilePath]>>
    ELSE << [op |-> "send", path |-> PartPath(Head(parts).num)],
            [op |-> "remove", path |-> PartPath(Head(parts).num)] >>
         \o SplitSchedule(Tail(parts))

\* the file is on disk, as far as the invocation goes: now while it runs,
\* at its end once it is over
Kept(f, path) == IF f.pc = "done" THEN path \in f.left ELSE path \in disk

\* C20: a file above 2 GiB is split and sent in parts: the parts go to the
\* transport in ascending part number, each part file is removed after its
\* send and before the next part is sent, and the original file is removed
\* only after every part was sent.
C20_SplitPartsInOrder ==
    \A h \in Handlers :
        LET f == hframe[h]
            n == Len(f.split_parts)
            schedule == SplitSchedule(f.split_parts)
        IN  (f.file_size # NoFile /\ f.file_size > 2 * 1024 * 1024) =>
              /\ n >= 1
              /\ \A k \in 1..n : f.split_parts[k].num = k - 1
              /\ Len(f.log) <= Len(schedule)
              /\ f.log = SubSeq(schedule, 1, Len(f.log))
              /\ \A k \in 1..n :
                    Kept(f, PartPath(f.split_parts[k].num))
                        <=> [op |-> "remove", path |-> PartPath(f.split_parts[k].num)]
                                \notin Range(f.log)
              /\ Kept(f, FilePath)
                    <=> [op |-> "remove", path |-> FilePath] \notin Range(f.log)

\* C20 witness: a split download of three parts went through to the end
C20_Witness ==
    \E h \in Handlers :
        /\ hframe[h].pc = "done"
        /\ Len(hframe[h].split_parts) = 3
        /\ Len(hframe[h].log) = 7

\* C21: once ytdl_handler is over, whether or not sending a part raised, no
\* part file that split_file created is left on disk.
C21_NoPartLeftBehind ==
    \A h \in Handlers :
        LET f == hframe[h]
        IN  f.pc = "done" =>
              \A k \in DOMAIN f.split_parts :
                  PartPath(f.split_parts[k].num) \notin f.left

\* ceil(n / d)
Ceil(n, d) == (n + d - 1) \div d

\* C22: safe_send_message sends the text in chunks of at most 4096
\* characters, in order: no chunk is empty, each chunk starts where the one
\* before it ended, and a call that returns has sent ceil(len / 4096) chunks
\* that together are the whole text (none for an empty text).
C22_ChunksCoverTextInOrder ==
    \A s \in Senders :
        LET f == mframe[s]
            n == Len(f.sent)
        IN  /\ \A k \in 1..n :
                /\ TextLen(f.sent[k]) > 0
                /\ TextLen(f.sent[k]) <= 4096
                /\ f.sent[k].lo = IF k = 1 THEN f.original.lo
                                           ELSE f.sent[k - 1].hi
            /\ (f.pc = "done" /\ ~f.raised) =>
                 /\ n = Ceil(TextLen(f.original), 4096)
                 /\ (TextLen(f.original) = 0) = (n = 0)
                 /\ n > 0 => f.sent[n].hi = f.original.hi

\* a text of two message limits and one character went out in three chunks
C22_Witness ==
    \E s \in Senders :
        /\ mframe[s].pc = "done"
        /\ ~mframe[s].raised
        /\ TextLen(mframe[s].original) = 2 * 4096 + 1
        /\ Len(mframe[s].sent) = 3

\* C23: every media send that ytdl_handler makes, of a whole file or of a
\* part, passes a caption of at most 1024 characters.
C23_CaptionsWithinLimit ==
    \A h \in Handlers :
        \A k \in DOMAIN hframe[h].captions : hframe[h].captions[k] <= 1024

\* C24: a sweep deletes the entries stored before it whose timestamp is
\* older than its time minus the retention window, and no others: nothing
\* it deletes was written during or after it, every entry written since is
\* still stored when it ends, and a second sweep at the same time deletes
\* nothing.
C24_SweepDeletesExactlyTheOld ==
    LET old(e) == e.timestamp < sweep.at - ARCHIVE_RETENTION_DAYS
        stored == Range(archives)
    IN  sweep.pc \in {"delete", "done"} =>
          /\ \A e \in sweep.deleted : old(e) /\ e \in sweep.before
          /\ sweep.deleted \cap stored = {}
          /\ \A e \in sweep.before : ~old(e) => e \in stored
          /\ Cardinality(stored \ sweep.before) = appended - sweep.appended0
          /\ sweep.pc = "done" =>
                sweep.deleted = {e \in sweep.before : old(e)}
          /\ sweep.last_at = sweep.at => sweep.deleted = {}

\* a sweep has ended that deleted an old entry, kept an entry stamped just
\* at the cutoff, and ran while a snapshot was appended
C24_Witness ==
    /\ sweep.pc = "done"
    /\ sweep.deleted # {}
    /\ \E e \in sweep.before : e.timestamp = sweep.cutoff
    /\ appended > sweep.appended0

\* a second sweep at the time of the first has ended
SecondSweepAtSameTime ==
    /\ sweep.pc = "done"
    /\ sweep.last_at = sweep.at
    /\ Len(archives) > 0

\* C25: an invocation of check_updates that found its target and is over has
\* added exactly one to checks.success or checks.failure, and to
\* checks.success only when nothing raised and the page was fetched.
C25_ExactlyOneCheckCounted ==
    \A p \in SeqProcs :
        LET f == frame[p]
            succ == stats.checks.success - f.stats0.checks.success
            fail == stats.checks.failure - f.stats0.checks.failure
        IN  (Over(f) /\ f.tracked_data.exists) =>
              /\ succ + fail = 1
              /\ succ = 1 => (~f.raised /\ (f.fetched => f.fetch_ok))

\* C26: when an invocation of check_updates is over, the downloads counters
\* have grown by one for each send_media call it made: success for each
\* call that returned True, failure for each that returned False.
C26_DownloadsCountSendMedia ==
    \A p \in SeqProcs :
        LET f == frame[p]
            succ == stats.downloads.success - f.stats0.downloads.success
            fail == stats.downloads.failure - f.stats0.downloads.failure
            Sent(a) == a.outcome = "sent"
            NotSent(a) == a.outcome # "sent"
        IN  Over(f) =>
              /\ succ = Len(SelectSeq(f.attempts, Sent))
              /\ fail = Len(SelectSeq(f.attempts, NotSent))

\* C27: when an invocation of check_updates is over that computed a content
\* hash equal to the stored one and delivered no resource, the target's
\* document is as the invocation read it and the user got no text message.
C27_QuietWhenNothingNew ==
    \A p \in SeqProcs :
        LET f == frame[p]
        IN  ( /\ Over(f)
              /\ f.tracked_data.exists
              /\ f.current_hash # NoHash
              /\ f.current_hash = f.tracked_data.content_hash
              /\ f.sent_hashes = <<>> )
            => /\ urls = f.tracked_data
               /\ f.texts = <<>>

\* the bytes of parts 1..n together
RECURSIVE TotalSize(_, _)
TotalSize(parts, n) ==
    IF n = 0 THEN 0 ELSE TotalSize(parts, n - 1) + parts[n].size

\* C28: the parts split_file returned for a download are numbered 0, 1, ...
\* without a gap, none is empty or larger than chunk_size, all but the last
\* are exactly chunk_size, there are ceil(size / chunk_size) of them, and
\* together they hold every byte of the file.
C28_SplitIsLossless ==
    \A h \in Handlers :
        LET f == hframe[h]
            parts == f.split_parts
            n == Len(parts)
        IN  (f.file_size > 2 * 1024 * 1024 /\ f.pc # "idle") =>
              /\ \A k \in 1..n :
                    /\ parts[k].num = k - 1
                    /\ parts[k].size > 0
                    /\ parts[k].size <= 2000 * 1024
                    /\ k < n => parts[k].size = 2000 * 1024
              /\ n = Ceil(f.file_size, 2000 * 1024)
              /\ TotalSize(parts, n) = f.file_size

\* C29: whatever ytdl_handler hands to the transport in one send is at most
\* 2 GiB: the whole file only when its size is at most 2 GiB, and otherwise
\* parts that are each below 2 GiB.
C29_SingleSendsWithinCap ==
    \A h \in Handlers :
        LET f == hframe[h]
            cap == 2 * 1024 * 1024
            SizeOk(path) ==
                IF path = FilePath
                THEN f.file_size <= cap
                ELSE \A j \in DOMAIN f.split_parts :
                        PartPath(f.split_parts[j].num) = path
                            => f.split_parts[j].size < cap
        IN  /\ f.pc = "send_whole" => SizeOk(FilePath)
            /\ f.pc = "send_part" => SizeOk(PartPath(f.split_parts[f.i].num))
            /\ \A k \in DOMAIN f.log :
                  f.log[k].op = "send" => SizeOk(f.log[k].path)

\* one invocation sent a file of exactly 2 GiB whole, another sent a part of
\* a larger file
C29_Witness ==
    \E h, g \in Handlers :
        /\ hframe[h].file_size = 2 * 1024 * 1024
        /\ [op |-> "send", path |-> FilePath] \in Range(hframe[h].log)
        /\ hframe[g].file_size > 2 * 1024 * 1024
        /\ [op |-> "send", path |-> PartPath(0)] \in Range(hframe[g].log)

\* the invocation is between `self.active_tasks[chat_id] = True` and the end
\* of its finally block
InFlight(f) == f.marked /\ f.pc \notin {"idle", "done"}

\* C30: at most one invocation of ytdl_handler for the chat is in flight at
\* any time, and a /dl command that arrives while one is in flight is
\* answered "already in progress" and starts no download.
C30_OneDownloadPerChat ==
    /\ [](Cardinality({h \in Handlers : InFlight(hframe[h])}) <= 1)
    /\ [][\A h, g \in Handlers :
            ( /\ h # g
              /\ InFlight(hframe[g])
              /\ hframe[h].pc = "idle"
              /\ hframe'[h].pc # "idle" )
            => /\ hframe'[h].pc = "reply_busy"
               /\ ~hframe'[h].marked]_vars
    /\ [](\A h \in Handlers :
            "reply_busy" \in Range(hframe[h].replies) \cup {hframe[h].pc}
                => /\ ~hframe[h].marked
                   /\ hframe[h].file_size = NoFile
                   /\ hframe[h].downloaded = {})

\* a second /dl command was answered "already in progress" while the first
\* download was in flight
C30_Witness ==
    \E h, g \in Handlers :
        /\ h # g
        /\ InFlight(hframe[g])
        /\ hframe[g].pc = "send_whole"
        /\ hframe[h].pc = "done"
        /\ hframe[h].replies = <<"reply_busy">>

\* C31: the step that ends an invocation of ytdl_handler which marked its
\* chat active leaves active_tasks and progress_data without an entry for
\* the chat and the progress task not running; a cancelled progress task
\* edits nothing more; and a /dl command with a URL that arrives when no
\* invocation is in flight is accepted.
C31_HandlerReleasesChat ==
    /\ [][\A h \in Handlers :
            ( /\ hframe[h].marked
              /\ hframe[h].pc # "done"
              /\ hframe'[h].pc = "done" )
            => /\ ~active_tasks'
               /\ progress_data' = "none"
               /\ hframe'[h].progress_task # "running"]_vars
    /\ [][\A h \in Handlers :
            hframe[h].progress_task = "cancelled"
                => hframe'[h].shown = hframe[h].shown
                   \/ hframe'[h].pc = "idle"]_vars
    /\ []((\A h \in Handlers : ~InFlight(hframe[h]))
            => ~active_tasks /\ progress_data = "none")
    /\ [][\A h \in Handlers :
            ( /\ \A g \in Handlers : ~InFlight(hframe[g])
              /\ hframe[h].pc = "idle"
              /\ hframe'[h].pc # "idle"
              /\ hframe'[h].url )
            => hframe'[h].pc = "reply_start"]_vars

\* a second /dl command was accepted after the first invocation had ended
\* through its except block with its progress task cancelled
C31_Witness ==
    \E h, g \in Handlers :
        /\ h # g
        /\ hframe[h].pc = "done"
        /\ hframe[h].marked
        /\ hframe[h].progress_task = "cancelled"
        /\ "error" \in Range(hframe[h].replies)
        /\ InFlight(hframe[g])

\* the tracked_urls of the file hold no URL twice
NoUrlTwice ==
    \A u \in BUsers :
        \A i, j \in DOMAIN user_data[u].tracked_urls :
            user_data[u].tracked_urls[i].url = user_data[u].tracked_urls[j].url
                => i = j

\* C32: when a scan of check_website_updates is over, each target for which
\* it sent the "Website changed" notification has the hash the scan
\* observed as its stored hash in what the scan saved.
C32_NotifiedHashIsStored ==
    scan.pc = "done" =>
        \A n \in Range(scan.notices) :
            (n.kind = "changed" /\ n.ok) =>
                scan.user_data[n.user_id].tracked_urls[n.index].hash = n.hash

\* the URLs of a user's tracked_urls in the file ud
TrackedUrls(ud, u) ==
    {ud[u].tracked_urls[i].url : i \in DOMAIN ud[u].tracked_urls}

\* C33: the step in which a scan saves its results leaves every user with
\* the URLs the file held just before: what /track added or /untrack
\* removed while the scan was in progress is still so.
C33_ScanKeepsCommands ==
    [][(scan.pc # "done" /\ scan'.pc = "done")
          => \A u \in BUsers :
                TrackedUrls(user_data', u) = TrackedUrls(user_data, u)]_vars

\* C34: the file never holds a URL twice for a user; a /track command for a
\* URL that is tracked already or cannot be fetched leaves the file as it
\* was; an /untrack command that is taken leaves the user no entry for the
\* URL, the user's other entries as they were and in their order, and the
\* other users' data untouched.
C34_CommandsKeepFileSound ==
    /\ []NoUrlTwice
    /\ [][\A k \in CmdProcs :
            (cmd[k].pc = "idle" /\ cmd'[k].pc = "reply") =>
                LET u == cmd'[k].user_id
                    x == cmd'[k].url
                    IsOther(e) == e.url # x
                IN  /\ ( /\ cmd'[k].kind = "track"
                         /\ x # NoUrl
                         /\ x \in TrackedUrls(user_data, u)
                              \/ site[x] = Unreachable )
                       => user_data' = user_data
                    /\ ( /\ cmd'[k].kind = "untrack"
                         /\ cmd'[k].reply # "not_authorized" )
                       => /\ x \notin TrackedUrls(user_data', u)
                          /\ user_data'[u].tracked_urls =
                                SelectSeq(user_data[u].tracked_urls, IsOther)
                          /\ \A v \in BUsers \ {u} :
                                user_data'[v] = user_data[v]]_vars

\* an /untrack command has removed a URL of a user who tracks another one
C34_Witness ==
    \E k \in CmdProcs :
        /\ cmd[k].pc = "reply"
        /\ cmd[k].kind = "untrack"
        /\ cmd[k].reply = "tracking_stopped"
        /\ cmd[k].url = 1
        /\ TrackedUrls(user_data, cmd[k].user_id) = {2}

\* a /track command for a URL tracked already has been turned down
TrackedAlready ==
    \E k \in CmdProcs :
        /\ cmd[k].pc = "reply"
        /\ cmd[k].kind = "track"
        /\ cmd[k].reply = "already_tracked"
        /\ cmd[k].url \in TrackedUrls(user_data, cmd[k].user_id)

====
